---- MODULE Spec2Model ----
(***************************************************************************)
(* The retrieval core of backend/core/rag.py: the tokenizer, the chunker,  *)
(* the corpus loader (KnowledgeBase.load), and the BM25 scorer              *)
(* (KnowledgeBase.search), with the language helpers of backend/core/i18n.  *)
(*                                                                         *)
(* Representation.  A Python str is a sequence of one-character strings;   *)
(* None and the empty str, which every caller here tests with `not x`, are *)
(* both the empty sequence.  A float is a fixed-point integer: idf in      *)
(* thousandths, a detection confidence in thousandths, a score in          *)
(* thousandths; avgdl is the fraction num/den, kept unreduced.             *)
(***************************************************************************)
EXTENDS Integers, Sequences, FiniteSets, TLC

(***************************************************************************)
(* Characters                                                              *)
(***************************************************************************)
Lower26 ==
  <<"a","b","c","d","e","f","g","h","i","j","k","l","m","n","o","p","q","r","s","t","u","v","w","x","y","z">>

Upper26 ==
  <<"A","B","C","D","E","F","G","H","I","J","K","L","M","N","O","P","Q","R","S","T","U","V","W","X","Y","Z">>

UpperAccented ==
  <<"À","Á","Â","Ã","Ä","Å","Æ","Ç","È","É","Ê","Ë","Ì","Í","Î","Ï","Ð","Ñ","Ò","Ó","Ô","Õ","Ö","Ø","Ù","Ú","Û","Ü","Ý","Þ">>

LowerAccented ==
  <<"à","á","â","ã","ä","å","æ","ç","è","é","ê","ë","ì","í","î","ï","ð","ñ","ò","ó","ô","õ","ö","ø","ù","ú","û","ü","ý","þ">>

\* the characters U+0020..U+005F, in code point order
AsciiLow ==
  <<" ", "!", "\"", "#", "$", "%", "&", "'", "(", ")", "*", "+", ",", "-", ".", "/", "0",
    "1", "2", "3", "4", "5", "6", "7", "8", "9", ":", ";", "<", "=", ">", "?", "@", "A",
    "B", "C", "D", "E", "F", "G", "H", "I", "J", "K", "L", "M", "N", "O", "P", "Q", "R",
    "S", "T", "U", "V", "W", "X", "Y", "Z", "[", "\\", "]", "^", "_">>

\* the characters U+0061..U+007E, in code point order
AsciiHigh ==
  <<"a", "b", "c", "d", "e", "f", "g", "h", "i", "j", "k", "l", "m", "n", "o", "p", "q",
    "r", "s", "t", "u", "v", "w", "x", "y", "z", "{", "|", "}", "~">>

Digits ==
  <<"0","1","2","3","4","5","6","7","8","9">>

Range(s) == {s[i] : i \in 1..Len(s)}

\* str.lower(): the cased letters of the ranges the word pattern accepts.
UpperSeq == Upper26 \o UpperAccented

LowerSeq == Lower26 \o LowerAccented

\* [A-Za-zÀ-ÖØ-öø-ÿ0-9']
WordChars == Range(UpperSeq) \cup Range(LowerSeq) \cup {"ß", "ÿ"} \cup Range(Digits) \cup {"'"}

\* [A-Za-zÀ-ÖØ-öø-ÿ']
LetterChars == WordChars \ Range(Digits)

\* [U+3040-U+30FF, U+31F0-U+31FF]: the code points of the ranges that the inputs use.
KanaChars == {"や", "カ", "タ"}

\* [U+4E00-U+9FFF]: the code points of the range that the inputs use.
CjkChars == {"量", "力", "日", "文"}

\* what str.strip() removes and \s matches
WS == {" ", "\t", "\n", "\r", "\f"}

\* ord(c), for the ASCII characters other than U+0060
CodePoint(c) ==
  IF c \in Range(AsciiLow)
  THEN 31 + (CHOOSE i \in 1..Len(AsciiLow) : AsciiLow[i] = c)
  ELSE 96 + (CHOOSE i \in 1..Len(AsciiHigh) : AsciiHigh[i] = c)

(***************************************************************************)
(* str helpers                                                             *)
(***************************************************************************)
None == <<>>

RECURSIVE LStrip(_)
LStrip(s) == IF s /= <<>> /\ Head(s) \in WS THEN LStrip(Tail(s)) ELSE s

RECURSIVE RStrip(_)
RStrip(s) ==
  IF s /= <<>> /\ s[Len(s)] \in WS THEN RStrip(SubSeq(s, 1, Len(s) - 1)) ELSE s

Strip(s) == RStrip(LStrip(s))

LowerChar(c) ==
  IF c \in Range(UpperSeq)
  THEN LowerSeq[CHOOSE i \in 1..Len(UpperSeq) : UpperSeq[i] = c]
  ELSE c

lower(s) == [i \in 1..Len(s) |-> LowerChar(s[i])]

\* re.findall(r"[cls]+", s): the maximal runs of characters of cls, in order.
RECURSIVE FindRuns(_, _, _, _)
FindRuns(s, i, cur, cls) ==
  LET flush == IF cur = <<>> THEN <<>> ELSE <<cur>> IN
  IF i > Len(s) THEN flush
  ELSE IF s[i] \in cls THEN FindRuns(s, i + 1, Append(cur, s[i]), cls)
  ELSE flush \o FindRuns(s, i + 1, <<>>, cls)

findall(cls, s) == FindRuns(s, 1, <<>>, cls)

EndsWith(w, suf) ==
  Len(w) >= Len(suf) /\ SubSeq(w, Len(w) - Len(suf) + 1, Len(w)) = suf

\* str < str: lexicographic by code point
RECURSIVE StrLess(_, _)
StrLess(a, b) ==
  IF b = <<>> THEN FALSE
  ELSE IF a = <<>> THEN TRUE
  ELSE IF Head(a) = Head(b) THEN StrLess(Tail(a), Tail(b))
  ELSE CodePoint(Head(a)) < CodePoint(Head(b))

\* str(n) for n >= 0
RECURSIVE IntToStr(_)
IntToStr(n) ==
  IF n < 10 THEN <<Digits[n + 1]>>
  ELSE IntToStr(n \div 10) \o <<Digits[(n % 10) + 1]>>

Max(a, b) == IF a >= b THEN a ELSE b

Min(a, b) == IF a <= b THEN a ELSE b

(***************************************************************************)
(* backend/core/i18n.py                                                    *)
(***************************************************************************)
en == <<"e","n">>

zh == <<"z","h">>

ja == <<"j","a">>

fr == <<"f","r">>

pt == <<"p","t">>

es == <<"e","s">>

id == <<"i","d">>

SUPPORTED_LANGS == {en, zh, ja, fr, pt, es, id}

aliases ==
  {
    <<<<"e","n","g">>, <<"e","n">>>>, <<<<"e","n","g","l","i","s","h">>, <<"e","n">>>>,
    <<<<"c","n">>, <<"z","h">>>>, <<<<"z","h","-","c","n">>, <<"z","h">>>>,
    <<<<"z","h","-","h","a","n","s">>, <<"z","h">>>>,
    <<<<"m","a","n","d","a","r","i","n">>, <<"z","h">>>>,
    <<<<"c","h","i","n","e","s","e">>, <<"z","h">>>>, <<<<"j","p">>, <<"j","a">>>>,
    <<<<"j","p","n">>, <<"j","a">>>>, <<<<"j","a","p","a","n","e","s","e">>, <<"j","a">>>>,
    <<<<"f","r","a">>, <<"f","r">>>>, <<<<"f","r","e","n","c","h">>, <<"f","r">>>>,
    <<<<"p","o","r">>, <<"p","t">>>>, <<<<"p","t","-","b","r">>, <<"p","t">>>>,
    <<<<"p","o","r","t","u","g","u","e","s","e">>, <<"p","t">>>>,
    <<<<"s","p","a">>, <<"e","s">>>>, <<<<"s","p","a","n","i","s","h">>, <<"e","s">>>>,
    <<<<"i","n","d","o">>, <<"i","d">>>>, <<<<"b","a","h","a","s","a">>, <<"i","d">>>>,
    <<<<"i","n","d","o","n","e","s","i","a","n">>, <<"i","d">>>> }

\* a normalization that looks the code up as it is given, neither stripped
\* nor lowercased
normalize_lang_exact(code) ==
  IF code = <<>> THEN None
  ELSE LET a == IF \E p \in aliases : p[1] = code
                THEN (CHOOSE p \in aliases : p[1] = code)[2]
                ELSE code
       IN IF a \in SUPPORTED_LANGS THEN a ELSE None

normalize_lang(code) ==
  IF code = <<>> THEN None
  ELSE LET c == lower(Strip(code))
           a == IF \E p \in aliases : p[1] = c
                THEN (CHOOSE p \in aliases : p[1] = c)[2]
                ELSE c
       IN IF a \in SUPPORTED_LANGS THEN a ELSE None

DetectStopwords_en ==
  {
    <<"t","h","e">>, <<"a","n","d">>, <<"i","s">>, <<"a","r","e">>, <<"w","h","a","t">>,
    <<"h","o","w">>, <<"w","h","y">>, <<"c","a","n">>, <<"d","o">>, <<"w","i","t","h">>,
    <<"f","r","o","m">> }

DetectStopwords_id ==
  {
    <<"y","a","n","g">>, <<"d","a","n">>, <<"a","t","a","u">>, <<"i","t","u">>, <<"i","n","i">>,
    <<"a","p","a">>, <<"b","a","g","a","i","m","a","n","a">>, <<"k","e","n","a","p","a">>,
    <<"b","i","s","a">>, <<"d","e","n","g","a","n">>, <<"d","a","r","i">> }

DetectStopwords_es ==
  {
    <<"e","l">>, <<"l","a">>, <<"y">>, <<"o">>, <<"q","u","e">>, <<"c","ó","m","o">>,
    <<"p","o","r">>, <<"p","a","r","a">>, <<"c","o","n">>, <<"d","e","s","d","e">> }

DetectStopwords_fr ==
  {
    <<"l","e">>, <<"l","a">>, <<"e","t">>, <<"o","u">>, <<"q","u","e">>,
    <<"c","o","m","m","e","n","t">>, <<"p","o","u","r">>, <<"a","v","e","c">>,
    <<"d","e","p","u","i","s">> }

DetectStopwords_pt ==
  {
    <<"o">>, <<"a">>, <<"e">>, <<"o","u">>, <<"q","u","e">>, <<"c","o","m","o">>,
    <<"p","o","r">>, <<"p","a","r","a">>, <<"c","o","m">>, <<"d","e","s","d","e">> }

\* _STOPWORDS, in the order of the dict's keys
DetectLangs == <<en, id, es, fr, pt>>

DetectStopwords(lang) ==
  CASE lang = en -> DetectStopwords_en
    [] lang = id -> DetectStopwords_id
    [] lang = es -> DetectStopwords_es
    [] lang = fr -> DetectStopwords_fr
    [] lang = pt -> DetectStopwords_pt

_contains_hiragana_katakana(text) == \E i \in 1..Len(text) : text[i] \in KanaChars

_contains_cjk(text) == \E i \in 1..Len(text) : text[i] \in CjkChars

DetectWindow == 120

LangGuess(code, confidence) == [code |-> code, confidence |-> confidence]

\* detect_language: the confidence is in thousandths (0.95 is 950).
detect_language(text) ==
  LET t == Strip(text) IN
  IF t = <<>> THEN LangGuess(en, 100)
  ELSE IF _contains_hiragana_katakana(t) THEN LangGuess(ja, 950)
  ELSE IF _contains_cjk(t) THEN LangGuess(zh, 850)
  ELSE
    LET words == findall(LetterChars, lower(t)) IN
    IF words = <<>> THEN LangGuess(en, 200)
    ELSE
      LET first == SubSeq(words, 1, Min(Len(words), DetectWindow))
          scores == [l \in Range(DetectLangs) |->
                       Cardinality({i \in 1..Len(first) : first[i] \in DetectStopwords(l)})]
          \* max() keeps the first of the largest, in key order
          bi == CHOOSE i \in 1..Len(DetectLangs) :
                  /\ \A j \in 1..Len(DetectLangs) : scores[DetectLangs[j]] <= scores[DetectLangs[i]]
                  /\ \A j \in 1..(i - 1) : scores[DetectLangs[j]] < scores[DetectLangs[i]]
          best_lang == DetectLangs[bi]
          best_score == scores[best_lang]
          total == scores[en] + scores[id] + scores[es] + scores[fr] + scores[pt]
          conf == Min(900, 450 + (best_score * 4000) \div Max(1, Len(words)))
      IN IF best_score = 0 THEN LangGuess(en, 350)
         ELSE IF total > 0 /\ 10 * best_score < 4 * total
              THEN LangGuess(best_lang, Min(conf, 600))
              ELSE LangGuess(best_lang, conf)

(***************************************************************************)
(* backend/core/utils.py                                                   *)
(***************************************************************************)
\* re.sub(r"\s+", " ", text)
RECURSIVE CollapseWS(_, _)
CollapseWS(s, i) ==
  IF i > Len(s) THEN <<>>
  ELSE IF s[i] \in WS
       THEN (IF i > 1 /\ s[i - 1] \in WS THEN <<>> ELSE <<" ">>) \o CollapseWS(s, i + 1)
       ELSE <<s[i]>> \o CollapseWS(s, i + 1)

normalize_ws(text) == Strip(CollapseWS(text, 1))

(***************************************************************************)
(* backend/core/rag.py: tokenize                                           *)
(***************************************************************************)
Stopwords_en ==
  {
    <<"a">>, <<"a","n">>, <<"t","h","e">>, <<"a","n","d">>, <<"o","r">>, <<"b","u","t">>,
    <<"i","f">>, <<"t","h","e","n">>, <<"e","l","s","e">>, <<"w","h","e","n">>,
    <<"w","h","i","l","e">>, <<"f","o","r">>, <<"t","o">>, <<"o","f">>, <<"i","n">>,
    <<"o","n">>, <<"a","t">>, <<"b","y">>, <<"w","i","t","h">>, <<"a","s">>, <<"i","s">>,
    <<"a","r","e">>, <<"w","a","s">>, <<"w","e","r","e">>, <<"b","e">>, <<"b","e","e","n">>,
    <<"t","h","i","s">>, <<"t","h","a","t">>, <<"t","h","e","s","e">>, <<"t","h","o","s","e">>,
    <<"i","t">>, <<"i","t","s">>, <<"y","o","u">>, <<"y","o","u","r">>, <<"i">>, <<"m","e">>,
    <<"m","y">>, <<"w","e">>, <<"o","u","r">>, <<"t","h","e","y">>, <<"t","h","e","m">>,
    <<"f","r","o","m">>, <<"i","n","t","o">>, <<"o","v","e","r">>, <<"u","n","d","e","r">>,
    <<"a","b","o","u","t">>, <<"a","b","o","v","e">>, <<"b","e","l","o","w">>, <<"u","p">>,
    <<"d","o","w","n">>, <<"o","u","t">>, <<"o","f","f">> }

Stopwords_id ==
  {
    <<"y","a","n","g">>, <<"d","a","n">>, <<"a","t","a","u">>, <<"t","a","p","i">>,
    <<"j","i","k","a">>, <<"m","a","k","a">>, <<"k","e","t","i","k","a">>,
    <<"s","e","m","e","n","t","a","r","a">>, <<"u","n","t","u","k">>, <<"k","e">>,
    <<"d","a","r","i">>, <<"d","i">>, <<"p","a","d","a">>, <<"o","l","e","h">>,
    <<"d","e","n","g","a","n">>, <<"s","e","b","a","g","a","i">>, <<"a","d","a","l","a","h">>,
    <<"i","n","i">>, <<"i","t","u">>, <<"t","e","r","s","e","b","u","t">>, <<"s","a","y","a">>,
    <<"a","k","u">>, <<"k","a","m","u">>, <<"a","n","d","a">>, <<"k","i","t","a">>,
    <<"k","a","m","i">>, <<"m","e","r","e","k","a">> }

Stopwords_es ==
  {
    <<"e","l">>, <<"l","a">>, <<"l","o","s">>, <<"l","a","s">>, <<"y">>, <<"o">>,
    <<"p","e","r","o">>, <<"s","i">>, <<"e","n","t","o","n","c","e","s">>,
    <<"c","u","a","n","d","o">>, <<"m","i","e","n","t","r","a","s">>, <<"p","a","r","a">>,
    <<"d","e">>, <<"e","n">>, <<"c","o","n">>, <<"c","o","m","o">>, <<"e","s">>,
    <<"s","o","n">>, <<"s","o","y">> }

Stopwords_fr ==
  {
    <<"l","e">>, <<"l","a">>, <<"l","e","s">>, <<"e","t">>, <<"o","u">>, <<"m","a","i","s">>,
    <<"s","i">>, <<"d","o","n","c">>, <<"q","u","a","n","d">>, <<"p","e","n","d","a","n","t">>,
    <<"p","o","u","r">>, <<"d","e">>, <<"e","n">>, <<"a","v","e","c">>, <<"c","o","m","m","e">>,
    <<"e","s","t">>, <<"s","o","n","t">>, <<"j","e">>, <<"t","u">>, <<"n","o","u","s">>,
    <<"v","o","u","s">> }

Stopwords_pt ==
  {
    <<"o">>, <<"a">>, <<"o","s">>, <<"a","s">>, <<"e">>, <<"o","u">>, <<"m","a","s">>,
    <<"s","e">>, <<"e","n","t","ã","o">>, <<"q","u","a","n","d","o">>,
    <<"e","n","q","u","a","n","t","o">>, <<"p","a","r","a">>, <<"d","e">>, <<"e","m">>,
    <<"c","o","m">>, <<"c","o","m","o">>, <<"é">>, <<"s","ã","o">>, <<"e","u">>,
    <<"v","o","c","ê">>, <<"n","ó","s">> }

StopwordLangs == {en, id, es, fr, pt}

STOPWORDS_BY_LANG(lang) ==
  CASE lang = en -> Stopwords_en
    [] lang = id -> Stopwords_id
    [] lang = es -> Stopwords_es
    [] lang = fr -> Stopwords_fr
    [] lang = pt -> Stopwords_pt

_has_hiragana_katakana(text) == \E i \in 1..Len(text) : text[i] \in KanaChars

_has_cjk(text) == \E i \in 1..Len(text) : text[i] \in CjkChars

\* a normalization that tries the rule for "s" before the rule for "ies"
StemPluralFirst(w) ==
  IF EndsWith(w, <<"s">>) /\ Len(w) > 3
  THEN SubSeq(w, 1, Len(w) - 1)
  ELSE IF EndsWith(w, <<"i","e","s">>) /\ Len(w) > 4
       THEN SubSeq(w, 1, Len(w) - 3) \o <<"y">>
       ELSE w

\* the light plural normalization of one word
Stem(w) ==
  IF EndsWith(w, <<"i","e","s">>) /\ Len(w) > 4
  THEN SubSeq(w, 1, Len(w) - 3) \o <<"y">>
  ELSE IF EndsWith(w, <<"s">>) /\ Len(w) > 3
       THEN SubSeq(w, 1, Len(w) - 1)
       ELSE w

\* a loop over words that also drops a word whose normalized form is a stopword
RECURSIVE LatinTokensFilterStemmed(_, _, _)
LatinTokensFilterStemmed(words, i, sw) ==
  IF i > Len(words) THEN <<>>
  ELSE LET w == words[i] IN
       IF Len(w) <= 1 THEN LatinTokensFilterStemmed(words, i + 1, sw)
       ELSE IF w \in sw \/ Stem(w) \in sw
            THEN LatinTokensFilterStemmed(words, i + 1, sw)
            ELSE <<Stem(w)>> \o LatinTokensFilterStemmed(words, i + 1, sw)

\* the loop over words of the Latin path
RECURSIVE LatinTokens(_, _, _)
LatinTokens(words, i, sw) ==
  IF i > Len(words) THEN <<>>
  ELSE LET w == words[i] IN
       IF Len(w) <= 1 THEN LatinTokens(words, i + 1, sw)
       ELSE IF w \in sw THEN LatinTokens(words, i + 1, sw)
       ELSE <<Stem(w)>> \o LatinTokens(words, i + 1, sw)

\* an ideographic path whose single characters are every second one
IdeographicTokensStride2(t) ==
  LET chars == SelectSeq(t, LAMBDA c : c \in KanaChars \cup CjkChars)
      n == Len(chars)
      bigrams == [i \in 1..(n - 1) |-> <<chars[i], chars[i + 1]>>]
      singles == [j \in 1..((n + 1) \div 2) |-> <<chars[2 * (j - 1) + 1]>>]
  IN IF n < 2 THEN [i \in 1..n |-> <<chars[i]>>]
     ELSE bigrams \o singles

\* the ideographic path
IdeographicTokens(t) ==
  LET chars == SelectSeq(t, LAMBDA c : c \in KanaChars \cup CjkChars)
      n == Len(chars)
      bigrams == [i \in 1..(n - 1) |-> <<chars[i], chars[i + 1]>>]
      singles == [j \in 1..((n + 2) \div 3) |-> <<chars[3 * (j - 1) + 1]>>]
  IN IF n < 2 THEN [i \in 1..n |-> <<chars[i]>>]
     ELSE bigrams \o singles

\* a tokenizer that takes the ideographic path only for a text that holds a
\* kana or CJK character, whatever the hint
tokenizeByTextOnly(text, lang_hint) ==
  LET t == Strip(text) IN
  IF t = <<>> THEN <<>>
  ELSE
    LET lang == normalize_lang(lang_hint) IN
    IF _has_hiragana_katakana(t) \/ _has_cjk(t)
    THEN IdeographicTokens(t)
    ELSE
      LET words == findall(WordChars, lower(t)) IN
      IF words = <<>> THEN <<>>
      ELSE
        LET key == IF lang = None THEN en ELSE lang
            sw == IF key \in StopwordLangs
                  THEN STOPWORDS_BY_LANG(key)
                  ELSE STOPWORDS_BY_LANG(en)
        IN LatinTokens(words, 1, sw)

tokenize(text, lang_hint) ==
  LET t == Strip(text) IN
  IF t = <<>> THEN <<>>
  ELSE
    LET lang == normalize_lang(lang_hint) IN
    IF lang \in {zh, ja} \/ _has_hiragana_katakana(t) \/ _has_cjk(t)
    THEN IdeographicTokens(t)
    ELSE
      LET words == findall(WordChars, lower(t)) IN
      IF words = <<>> THEN <<>>
      ELSE
        LET key == IF lang = None THEN en ELSE lang
            sw == IF key \in StopwordLangs
                  THEN STOPWORDS_BY_LANG(key)
                  ELSE STOPWORDS_BY_LANG(en)
        IN LatinTokens(words, 1, sw)

(***************************************************************************)
(* backend/core/rag.py: chunk_text                                         *)
(***************************************************************************)
\* where a match of \n\s*\n that starts at i ends (the greedy \s* gives the
\* last possible newline), or 0 when none starts at i
MatchEnd(s, i) ==
  LET ends == {j \in (i + 1)..Len(s) :
                 /\ s[j] = "\n"
                 /\ \A m \in (i + 1)..(j - 1) : s[m] \in WS}
  IN IF s[i] = "\n" /\ ends /= {}
     THEN CHOOSE j \in ends : \A m \in ends : m <= j
     ELSE 0

\* re.split(r"\n\s*\n", s)
RECURSIVE SplitBlank(_, _, _)
SplitBlank(s, i, cur) ==
  IF i > Len(s) THEN <<cur>>
  ELSE IF MatchEnd(s, i) > 0
       THEN <<cur>> \o SplitBlank(s, MatchEnd(s, i) + 1, <<>>)
       ELSE SplitBlank(s, i + 1, Append(cur, s[i]))

\* a loop that forgets the two separator characters when it tests the bound
RECURSIVE AccumulateNoSep(_, _, _, _, _)
AccumulateNoSep(raw_blocks, i, chunks, buf, max_chars) ==
  IF i > Len(raw_blocks)
  THEN (IF buf /= <<>> THEN Append(chunks, buf) ELSE chunks)
  ELSE LET b == Strip(raw_blocks[i]) IN
       IF b = <<>> THEN AccumulateNoSep(raw_blocks, i + 1, chunks, buf, max_chars)
       ELSE IF Len(buf) + Len(b) <= max_chars
            THEN AccumulateNoSep(raw_blocks, i + 1, chunks,
                                 Strip(buf \o <<"\n", "\n">> \o b), max_chars)
            ELSE AccumulateNoSep(raw_blocks, i + 1,
                                 (IF buf /= <<>> THEN Append(chunks, buf) ELSE chunks),
                                 b, max_chars)

\* a loop that returns without the buffer it still holds: the final
\* `if buf: chunks.append(buf)` left out
RECURSIVE AccumulateNoFlush(_, _, _, _, _)
AccumulateNoFlush(raw_blocks, i, chunks, buf, max_chars) ==
  IF i > Len(raw_blocks)
  THEN chunks
  ELSE LET b == Strip(raw_blocks[i]) IN
       IF b = <<>> THEN AccumulateNoFlush(raw_blocks, i + 1, chunks, buf, max_chars)
       ELSE IF Len(buf) + Len(b) + 2 <= max_chars
            THEN AccumulateNoFlush(raw_blocks, i + 1, chunks,
                                   Strip(buf \o <<"\n", "\n">> \o b), max_chars)
            ELSE AccumulateNoFlush(raw_blocks, i + 1,
                                   (IF buf /= <<>> THEN Append(chunks, buf) ELSE chunks),
                                   b, max_chars)

\* the loop of chunk_text over raw_blocks; the result is the chunks list
\* with the last buffer flushed
RECURSIVE Accumulate(_, _, _, _, _)
Accumulate(raw_blocks, i, chunks, buf, max_chars) ==
  IF i > Len(raw_blocks)
  THEN (IF buf /= <<>> THEN Append(chunks, buf) ELSE chunks)
  ELSE LET b == Strip(raw_blocks[i]) IN
       IF b = <<>> THEN Accumulate(raw_blocks, i + 1, chunks, buf, max_chars)
       ELSE IF Len(buf) + Len(b) + 2 <= max_chars
            THEN Accumulate(raw_blocks, i + 1, chunks,
                            Strip(buf \o <<"\n", "\n">> \o b), max_chars)
            ELSE Accumulate(raw_blocks, i + 1,
                            (IF buf /= <<>> THEN Append(chunks, buf) ELSE chunks),
                            b, max_chars)

\* c.replace("\n", " ")
ReplaceNewlines(c) == [i \in 1..Len(c) |-> IF c[i] = "\n" THEN " " ELSE c[i]]

chunk_text(text, max_chars) ==
  LET raw_blocks == SplitBlank(Strip(text), 1, <<>>)
      chunks == Accumulate(raw_blocks, 1, <<>>, <<>>, max_chars)
      kept == SelectSeq(chunks, LAMBDA c : Strip(c) /= <<>>)
  IN [i \in 1..Len(kept) |-> normalize_ws(ReplaceNewlines(kept[i]))]

(***************************************************************************)
(* backend/core/rag.py: the corpus loader                                  *)
(***************************************************************************)
\* chunk_text's default max_chars, which load uses
MaxChars == 850

\* KBChunk (the title, which nothing here reads, is left out)
KBChunk(chunk_id, source_file, lang, text, tokens, tf) ==
  [chunk_id |-> chunk_id, source_file |-> source_file, lang |-> lang,
   text |-> text, tokens |-> tokens, tf |-> tf]

EmptyMap == [t \in {} |-> 0]

\* tf[t] = tf.get(t, 0) + 1 over toks
TfOf(toks) ==
  [t \in Range(toks) |-> Cardinality({i \in 1..Len(toks) : toks[i] = t})]

\* an update that counts every occurrence: for t in toks: df[t] = df.get(t, 0) + 1
DfUpdateByOccurrence(m, toks) ==
  [t \in (DOMAIN m) \cup Range(toks) |->
     (IF t \in DOMAIN m THEN m[t] ELSE 0) + Cardinality({i \in 1..Len(toks) : toks[i] = t})]

\* for t in set(toks): df[t] = df.get(t, 0) + 1
DfUpdate(m, toks) ==
  [t \in (DOMAIN m) \cup Range(toks) |->
     (IF t \in DOMAIN m THEN m[t] ELSE 0) + (IF t \in Range(toks) THEN 1 ELSE 0)]

\* the loop `for idx, ch in enumerate(chunk_text(text))` of load and of
\* _load_jsonl_pack; acc is the pair of locals (chunks, df), idx counts from 0
RECURSIVE AddChunks(_, _, _, _, _, _)
AddChunks(acc, id_prefix, source_file, lang, chs, idx) ==
  IF idx >= Len(chs) THEN acc
  ELSE
    LET ch == chs[idx + 1]
        toks == tokenize(ch, lang)
        c == KBChunk(id_prefix \o <<":">> \o IntToStr(idx), source_file, lang,
                     ch, toks, TfOf(toks))
    IN IF toks = <<>>
       THEN AddChunks(acc, id_prefix, source_file, lang, chs, idx + 1)
       ELSE AddChunks([acc EXCEPT !.chunks = Append(@, c), !.df = DfUpdate(@, toks)],
                      id_prefix, source_file, lang, chs, idx + 1)

\* sorted(dir.glob("*" + ext)): the files present, ordered by name; a file is
\* known by its base, the part of its name that the * of the pattern matches
RECURSIVE SortedNames(_, _)
SortedNames(S, ext) ==
  IF S = {} THEN <<>>
  ELSE LET m == CHOOSE x \in S : \A y \in S \ {x} : StrLess(x \o ext, y \o ext)
       IN <<m>> \o SortedNames(S \ {m}, ext)

\* fp.stem: the name without its last suffix; a name has a suffix when its
\* last "." is neither its first nor its last character
PathStem(name) ==
  LET dots == {i \in 1..Len(name) : name[i] = "."}
      last == CHOOSE i \in dots : \A j \in dots : j <= i
  IN IF dots /= {} /\ 1 < last /\ last < Len(name) THEN SubSeq(name, 1, last - 1)
     ELSE name

ExtMd == <<".", "m", "d">>

ExtJsonl == <<".", "j", "s", "o", "n", "l">>

\* safe_read_text: the text, or the default "" when the read fails
safe_read_text(file) == IF file.kind = "file" THEN file.text ELSE <<>>

\* the body of `for fp in sorted(self.kb_dir.glob("*.md"))` for one file
LoadMdFile(acc, base, file) ==
  LET text == safe_read_text(file)
      guess == detect_language(text)
      lang == IF guess.confidence >= 600 THEN guess.code ELSE en
  IN IF Strip(text) = <<>> THEN acc
     ELSE AddChunks(acc, <<"m","d",":">> \o PathStem(base \o ExtMd), base \o ExtMd, lang,
                    chunk_text(text, MaxChars), 0)

RECURSIVE LoadMdFiles(_, _, _)
LoadMdFiles(acc, bases, files) ==
  IF bases = <<>> THEN acc
  ELSE LoadMdFiles(LoadMdFile(acc, Head(bases), files[Head(bases)]), Tail(bases), files)

\* One line of a pack file.  json says what json.loads makes of the stripped
\* line: "blank" (nothing to parse), "invalid" (json.loads raises), "object"
\* (a dict, with its "text" and "lang", "" when the key is missing), or a
\* JSON value that is no object: "array", "number", "string".
JsonKinds == {"blank", "invalid", "object", "array", "number", "string"}

Line(json, text, lang) == [json |-> json, text |-> text, lang |-> lang]

\* the body of `for line_no, line in enumerate(raw.splitlines())`; line_no
\* counts from 0.  obj.get on a value that is no dict raises AttributeError,
\* which nothing catches.
LoadPackLine(acc, base, line_no, line) ==
  IF acc.raised \/ line.json \in {"blank", "invalid"} THEN acc
  ELSE IF line.json /= "object" THEN [acc EXCEPT !.raised = TRUE]
  ELSE
    LET text == Strip(line.text)
        nl == normalize_lang(line.lang)
        lang == IF nl = None THEN en ELSE nl
    IN IF text = <<>> THEN acc
       ELSE AddChunks(acc, <<"p","a","c","k",":">> \o PathStem(base \o ExtJsonl)
                             \o <<":">> \o IntToStr(line_no),
                      base \o ExtJsonl, lang, chunk_text(text, MaxChars), 0)

RECURSIVE LoadPackLines(_, _, _, _)
LoadPackLines(acc, base, lines, line_no) ==
  IF line_no >= Len(lines) THEN acc
  ELSE LoadPackLines(LoadPackLine(acc, base, line_no, lines[line_no + 1]),
                     base, lines, line_no + 1)

\* _load_jsonl_pack: a file that cannot be read contributes nothing
_load_jsonl_pack(acc, base, file) ==
  IF file.kind /= "file" THEN acc
  ELSE LoadPackLines(acc, base, file.lines, 0)

RECURSIVE LoadPackFiles(_, _, _)
LoadPackFiles(acc, bases, files) ==
  IF bases = <<>> \/ acc.raised THEN acc
  ELSE LoadPackFiles(_load_jsonl_pack(acc, Head(bases), files[Head(bases)]),
                     Tail(bases), files)

Present(files) == {n \in DOMAIN files : files[n].kind /= "absent"}

\* load, up to the assignment of self.chunks: the locals chunks and df built
\* from the sources, or raised when an exception left the loops
LoadSources(mdFiles, packFiles) ==
  LET acc0 == [chunks |-> <<>>, df |-> EmptyMap, raised |-> FALSE]
      acc1 == LoadMdFiles(acc0, SortedNames(Present(mdFiles), ExtMd), mdFiles)
  IN LoadPackFiles(acc1, SortedNames(Present(packFiles), ExtJsonl), packFiles)

\* math.log(n) for the integers the idf formula meets, in millionths
LnMicro ==
  <<0, 693147, 1098612, 1386294, 1609438, 1791759, 1945910, 2079442, 2197225, 2302585,
    2397895, 2484907, 2564949, 2639057, 2708050, 2772589, 2833213, 2890372, 2944439,
    2995732, 3044522, 3091042, 3135494, 3178054, 3218876, 3258097, 3295837, 3332205,
    3367296, 3401197, 3433987, 3465736, 3496508, 3526361, 3555348, 3583519, 3610918,
    3637586, 3663562, 3688879>>

\* the idf without the smoothing term, math.log((n_docs - dfi + 0.5) / (dfi + 0.5)):
\* negative for a term held by more than half of the chunks
IdfOfUnsmoothed(n_docs, dfi) ==
  (LnMicro[2 * (n_docs - dfi) + 1] - LnMicro[2 * dfi + 1]) \div 1000

\* the idf as the plain ratio, math.log(n_docs / dfi): 0 for a term that every
\* chunk holds
IdfOfRatio(n_docs, dfi) == (LnMicro[n_docs] - LnMicro[dfi]) \div 1000

\* math.log(1 + (n_docs - dfi + 0.5) / (dfi + 0.5)), in thousandths:
\* 1 + (n - d + 0.5)/(d + 0.5) = (2n + 2)/(2d + 1)
IdfOf(n_docs, dfi) == (LnMicro[2 * n_docs + 2] - LnMicro[2 * dfi + 1]) \div 1000

RECURSIVE SumLen(_)
SumLen(cs) == IF cs = <<>> THEN 0 ELSE Len(Head(cs).tokens) + SumLen(Tail(cs))

\* the mean without the floor of 1.0: total_len / n_docs
AvgdlOfUnclamped(total_len, n_docs) == [num |-> total_len, den |-> n_docs]

\* max(1.0, total_len / n_docs) as a fraction
AvgdlOf(total_len, n_docs) ==
  IF total_len >= n_docs THEN [num |-> total_len, den |-> n_docs]
  ELSE [num |-> 1, den |-> 1]

(***************************************************************************)
(* backend/core/rag.py: the scorer                                         *)
(***************************************************************************)
\* k1 = 1.4, in tenths
K1x10 == 14

\* b = 0.75, in hundredths
Bx100 == 75

\* one query token's share of the score of doc, in thousandths:
\* idf * (tf * (k1 + 1)) / (tf + k1 * (1 - b + b * (dl / avgdl)))
ScoreTerm(t, doc, s_idf, s_avgdl) ==
  LET tf == IF t \in DOMAIN doc.tf THEN doc.tf[t] ELSE 0
      idfv == IF t \in DOMAIN s_idf THEN s_idf[t] ELSE 0
      dl == Max(1, Len(doc.tokens))
  IN IF tf <= 0 THEN 0
     ELSE (idfv * tf * (K1x10 + 10) * 100 * s_avgdl.num)
            \div (1000 * tf * s_avgdl.num + K1x10 * (100 - Bx100) * s_avgdl.num
                    + K1x10 * Bx100 * dl * s_avgdl.den)

\* a sum over the distinct query tokens, for t in set(q_tokens): a token
\* repeated in the query counts once
RECURSIVE SumTermsDistinct(_, _, _, _)
SumTermsDistinct(q_tokens, doc, s_idf, s_avgdl) ==
  IF q_tokens = <<>> THEN 0
  ELSE (IF Head(q_tokens) \in Range(Tail(q_tokens)) THEN 0
        ELSE ScoreTerm(Head(q_tokens), doc, s_idf, s_avgdl))
         + SumTermsDistinct(Tail(q_tokens), doc, s_idf, s_avgdl)

RECURSIVE SumTerms(_, _, _, _)
SumTerms(q_tokens, doc, s_idf, s_avgdl) ==
  IF q_tokens = <<>> THEN 0
  ELSE ScoreTerm(Head(q_tokens), doc, s_idf, s_avgdl)
         + SumTerms(Tail(q_tokens), doc, s_idf, s_avgdl)

\* _bm25_score, reading self.idf and self.avgdl as they are at the call
_bm25_score(q_tokens, doc, s_idf, s_avgdl) ==
  IF s_avgdl.num <= 0 THEN 0 ELSE SumTerms(q_tokens, doc, s_idf, s_avgdl)

\* a filter that keeps the chunks of score 0 as well: if s >= 0
KeepNonNegative(s) == s >= 0

\* if s > 0: scores.append((i, s))
Keep(s) == s > 0

\* the first of a over b in scores.sort(key=lambda x: x[1], reverse=True)
Before(a, b) == a.s > b.s

\* a descending sort that is not stable: of equal keys the later comes first
RECURSIVE SortScoresLaterFirst(_)
SortScoresLaterFirst(scores) ==
  IF scores = <<>> THEN <<>>
  ELSE LET m == CHOOSE i \in 1..Len(scores) :
                  /\ \A j \in 1..Len(scores) : ~Before(scores[j], scores[i])
                  /\ \A j \in (i + 1)..Len(scores) : Before(scores[i], scores[j])
       IN <<scores[m]>>
            \o SortScoresLaterFirst(SubSeq(scores, 1, m - 1)
                                      \o SubSeq(scores, m + 1, Len(scores)))

\* list.sort(reverse=True) is stable: of equal keys the earlier stays first
RECURSIVE SortScores(_)
SortScores(scores) ==
  IF scores = <<>> THEN <<>>
  ELSE LET m == CHOOSE i \in 1..Len(scores) :
                  /\ \A j \in 1..Len(scores) : ~Before(scores[j], scores[i])
                  /\ \A j \in 1..(i - 1) : Before(scores[i], scores[j])
       IN <<scores[m]>>
            \o SortScores(SubSeq(scores, 1, m - 1) \o SubSeq(scores, m + 1, Len(scores)))

\* the ranking without the cut at k: scores[:]
TakeAll(scores, k) == scores

\* scores[: max(1, k)]
TakeK(scores, k) == SubSeq(scores, 1, Min(Len(scores), Max(1, k)))

(***************************************************************************)
(* The sources and the inputs of the calls                                 *)
(***************************************************************************)
\* calls of load and search made in one run of concurrent callers
MaxCalls == 3

\* changes made to the source directories in one run of concurrent callers
MaxFsOps == 1

\* calls of load and search made in one run of a single caller
SeqMaxCalls == 2

\* changes made to the source directories in one run of a single caller
SeqMaxFsOps == 1

Threads == {1, 2}

MdNames == {<<"a">>, <<"b">>}

PackNames == {<<"p">>}

Absent == [kind |-> "absent", text |-> <<>>]

MdFile(text) == [kind |-> "file", text |-> text]

\* "bm25 Cats cat"
DocBm25 == MdFile(<<"b","m","2","5"," ","C","a","t","s"," ","c","a","t">>)

\* "the a": only a stopword and a one-letter word
DocNoToken == MdFile(<<"t","h","e"," ","a">>)

MdContents == {Absent, [kind |-> "unreadable", text |-> <<>>], DocBm25, DocNoToken}

AbsentPack == [kind |-> "absent", lines |-> <<>>]

PackFile(lines) == [kind |-> "file", lines |-> lines]

RecCats == Line("object", <<"c","a","t","s">>, en)

RecCjk == Line("object", <<"量","力","日","文">>, zh)

PackContents ==
  { AbsentPack,
    [kind |-> "unreadable", lines |-> <<>>],
    PackFile(<<RecCats, Line("blank", <<>>, <<>>), Line("invalid", <<>>, <<>>),
               Line("object", <<>>, en), RecCjk>>),
    PackFile(<<Line("array", <<>>, <<>>), RecCats>>) }

\* "BM25", "cat bm25", "the a", "dog" and a CJK query
Queries ==
  { <<"B","M","2","5">>,
    <<"c","a","t"," ","b","m","2","5">>,
    <<"t","h","e"," ","a">>,
    <<"d","o","g">>,
    <<"量","力">> }

Ks == {0, 2, 4}

Hints == {None, <<"x","x">>}

\* what the concurrent callers start from and use
ConcMdContents == {Absent, DocBm25}

ConcPackContents == {AbsentPack, PackFile(<<RecCats>>)}

ConcQueries == {<<"c","a","t"," ","b","m","2","5">>}

ConcKs == {2}

ConcHints == {None}

(***************************************************************************)
(* State                                                                   *)
(***************************************************************************)
VARIABLES
  md,          \* kb_dir: the *.md files, by base
  packs,       \* packs_processed_dir: the *.jsonl files, by base
  chunks,      \* self.chunks
  df,          \* self.df
  idf,         \* self.idf
  avgdl,       \* self.avgdl
  _is_ready,   \* self._is_ready
  th,          \* each thread's call: its position, arguments and locals
  calls,       \* calls made so far
  fsops,       \* source changes made so far
  implicitLoads,   \* history: loads that a search started
  explicitEnded,   \* history: a call of load has ended
  lateImplicit,    \* history: a search started a load after a call of load ended
  everReady,       \* history: _is_ready has been true
  published,       \* history: the Index that the last load to finish built
  fn               \* the call of a module-level function made last, with its result

vars == <<md, packs, chunks, df, idf, avgdl, _is_ready, th, calls, fsops,
          implicitLoads, explicitEnded, lateImplicit, everReady, published, fn>>

\* what the calls of the module-level functions leave behind
pure == <<fn>>

kb == <<chunks, df, idf, avgdl, _is_ready>>

hist == <<implicitLoads, explicitEnded, lateImplicit, everReady, published>>

\* the Index a load that built (cs, d) publishes when nothing interferes
IndexOf(cs, d) ==
  [chunks |-> cs, df |-> d,
   idf |-> [term \in DOMAIN d |-> IdfOf(Max(1, Len(cs)), d[term])],
   avgdl |-> AvgdlOf(SumLen(cs), Max(1, Len(cs)))]

\* the Index before any load: the fields as __init__ leaves them
InitIndex ==
  [chunks |-> <<>>, df |-> EmptyMap, idf |-> EmptyMap, avgdl |-> [num |-> 0, den |-> 1]]

\* the four shared fields as they are now
Shared == [chunks |-> chunks, df |-> df, idf |-> idf, avgdl |-> avgdl]

NoResult == [kind |-> "none", exc |-> "", hits |-> <<>>]

Returned(hits) == [kind |-> "returned", exc |-> "", hits |-> hits]

Raised(exc) == [kind |-> "raised", exc |-> exc, hits |-> <<>>]

\* a thread outside any call
IdleFrame ==
  [pc |-> "idle", op |-> "none", query |-> <<>>, k |-> 0, hint |-> None,
   implicit |-> FALSE, l_df |-> EmptyMap, n_docs |-> 0, q_tokens |-> <<>>,
   it |-> <<>>, pos |-> 0, scores |-> <<>>, out |-> <<>>, result |-> NoResult,
   \* history of a load: the Index it is building, the shared fields as they
   \* were when it assigned self.chunks, and whether _is_ready was true then
   target |-> InitIndex, before |-> InitIndex, reload |-> FALSE,
   \* history of a search: the Indexes in force or under construction at some
   \* time since it took its iterator
   snaps |-> {}]

\* no call of a module-level function made
NoCall == [op |-> "none"]

\* the KnowledgeBase as __init__ leaves it, no call made
Fresh ==
  /\ fn = NoCall
  /\ chunks = <<>>
  /\ df = EmptyMap
  /\ idf = EmptyMap
  /\ avgdl = [num |-> 0, den |-> 1]
  /\ _is_ready = FALSE
  /\ th = [t \in Threads |-> IdleFrame]
  /\ calls = 0
  /\ fsops = 0
  /\ implicitLoads = 0
  /\ explicitEnded = FALSE
  /\ lateImplicit = FALSE
  /\ everReady = FALSE
  /\ published = InitIndex

Init ==
  /\ md = [n \in MdNames |-> DocBm25]
  /\ packs = [n \in PackNames |-> AbsentPack]
  /\ Fresh

SeqInit ==
  /\ md \in [MdNames -> MdContents]
  /\ packs \in [PackNames -> PackContents]
  /\ Fresh

(***************************************************************************)
(* The source directories change under the program                         *)
(***************************************************************************)
WriteMd(n, c) ==
  /\ c /= md[n]
  /\ md' = [md EXCEPT ![n] = c]
  /\ fsops' = fsops + 1
  /\ UNCHANGED <<pure, packs, kb, th, calls, hist>>

WritePack(n, c) ==
  /\ c /= packs[n]
  /\ packs' = [packs EXCEPT ![n] = c]
  /\ fsops' = fsops + 1
  /\ UNCHANGED <<pure, md, kb, th, calls, hist>>

(***************************************************************************)
(* KnowledgeBase.load, statement by statement                              *)
(***************************************************************************)
\* a caller calls kb.load()
CallLoad(t) ==
  /\ th[t].pc = "idle"
  /\ calls' = calls + 1
  /\ th' = [th EXCEPT ![t] = [IdleFrame EXCEPT !.pc = "L_build", !.op = "load"]]
  /\ UNCHANGED <<pure, md, packs, kb, fsops, hist>>

\* who is searching and has taken its iterator over self.chunks
Scoring(f) == f.op = "search" /\ f.pc \in {"S_score", "S_out"}

\* who is in load past the assignment of self.chunks
Publishing(f) == f.pc \in {"L_df", "L_ndocs", "L_avgdl", "L_idf", "L_ready"}

\* lines 134-178: read the sources into the locals, then self.chunks = chunks;
\* an exception leaves load, and search when search called it
LoadBuild(t) ==
  /\ th[t].pc = "L_build"
  /\ \E r \in {LoadSources(md, packs)} :
       IF r.raised
       THEN /\ th' = [th EXCEPT ![t].pc = "done", ![t].result = Raised("AttributeError")]
            /\ explicitEnded' = (explicitEnded \/ ~th[t].implicit)
            /\ UNCHANGED <<chunks>>
       ELSE /\ chunks' = r.chunks
            /\ th' = [u \in Threads |->
                        IF u = t THEN [th[t] EXCEPT !.pc = "L_df", !.l_df = r.df,
                                                    !.target = IndexOf(r.chunks, r.df),
                                                    !.before = Shared,
                                                    !.reload = _is_ready]
                        ELSE IF Scoring(th[u])
                             THEN [th[u] EXCEPT !.snaps = @ \cup {IndexOf(r.chunks, r.df)}]
                             ELSE th[u]]
            /\ UNCHANGED <<explicitEnded>>
  /\ UNCHANGED <<pure, md, packs, df, idf, avgdl, _is_ready, calls, fsops,
                 implicitLoads, lateImplicit, everReady, published>>

\* a load that counts into the df table it finds instead of replacing it
LoadDfMerging(t) ==
  /\ th[t].pc = "L_df"
  /\ df' = [term \in DOMAIN df \cup DOMAIN th[t].l_df |->
              (IF term \in DOMAIN df THEN df[term] ELSE 0)
                + (IF term \in DOMAIN th[t].l_df THEN th[t].l_df[term] ELSE 0)]
  /\ th' = [th EXCEPT ![t].pc = "L_ndocs"]
  /\ UNCHANGED <<pure, md, packs, chunks, idf, avgdl, _is_ready, calls, fsops, hist>>

\* line 179: self.df = df
LoadDf(t) ==
  /\ th[t].pc = "L_df"
  /\ df' = th[t].l_df
  /\ th' = [th EXCEPT ![t].pc = "L_ndocs"]
  /\ UNCHANGED <<pure, md, packs, chunks, idf, avgdl, _is_ready, calls, fsops, hist>>

\* line 182: n_docs = max(1, len(self.chunks))
LoadNDocs(t) ==
  /\ th[t].pc = "L_ndocs"
  /\ th' = [th EXCEPT ![t].pc = "L_avgdl", ![t].n_docs = Max(1, Len(chunks))]
  /\ UNCHANGED <<pure, md, packs, kb, calls, fsops, hist>>

\* lines 183-184: total_len over self.chunks, self.avgdl
LoadAvgdl(t) ==
  /\ th[t].pc = "L_avgdl"
  /\ avgdl' = AvgdlOf(SumLen(chunks), th[t].n_docs)
  /\ th' = [th EXCEPT ![t].pc = "L_idf"]
  /\ UNCHANGED <<pure, md, packs, chunks, df, idf, _is_ready, calls, fsops, hist>>

\* lines 187-191: idf over self.df.items(), self.idf = idf
LoadIdf(t) ==
  /\ th[t].pc = "L_idf"
  /\ idf' = [term \in DOMAIN df |-> IdfOf(th[t].n_docs, df[term])]
  /\ th' = [th EXCEPT ![t].pc = "L_ready"]
  /\ published' = th[t].target
  /\ UNCHANGED <<pure, md, packs, chunks, df, avgdl, _is_ready, calls, fsops,
                 implicitLoads, explicitEnded, lateImplicit, everReady>>

\* line 192: self._is_ready = True, and load returns: to search at line 243,
\* or to the caller of load
LoadReady(t) ==
  /\ th[t].pc = "L_ready"
  /\ _is_ready' = TRUE
  /\ everReady' = TRUE
  /\ IF th[t].implicit
     THEN /\ th' = [th EXCEPT ![t].pc = "S_tok"]
          /\ UNCHANGED explicitEnded
     ELSE /\ th' = [th EXCEPT ![t].pc = "done", ![t].result = Returned(<<>>)]
          /\ explicitEnded' = TRUE
  /\ UNCHANGED <<pure, md, packs, chunks, df, idf, avgdl, calls, fsops,
                 implicitLoads, lateImplicit, published>>

(***************************************************************************)
(* KnowledgeBase.search, statement by statement                            *)
(***************************************************************************)
\* a caller calls kb.search(query, k, lang_hint)
CallSearch(t, query, k, hint) ==
  /\ th[t].pc = "idle"
  /\ calls' = calls + 1
  /\ th' = [th EXCEPT ![t] = [IdleFrame EXCEPT !.pc = "S_check", !.op = "search",
                                               !.query = query, !.k = k, !.hint = hint]]
  /\ UNCHANGED <<pure, md, packs, kb, fsops, hist>>

\* a search that loads whether or not the KnowledgeBase is ready
SearchCheckAlways(t) ==
  /\ th[t].pc = "S_check"
  /\ th' = [th EXCEPT ![t].pc = "L_build", ![t].implicit = TRUE]
  /\ implicitLoads' = implicitLoads + 1
  /\ lateImplicit' = (lateImplicit \/ explicitEnded)
  /\ UNCHANGED <<pure, md, packs, kb, calls, fsops, explicitEnded, everReady, published>>

\* lines 240-241: if not self._is_ready: self.load()
SearchCheck(t) ==
  /\ th[t].pc = "S_check"
  /\ IF _is_ready
     THEN /\ th' = [th EXCEPT ![t].pc = "S_tok"]
          /\ UNCHANGED <<implicitLoads, lateImplicit>>
     ELSE /\ th' = [th EXCEPT ![t].pc = "L_build", ![t].implicit = TRUE]
          /\ implicitLoads' = implicitLoads + 1
          /\ lateImplicit' = (lateImplicit \/ explicitEnded)
  /\ UNCHANGED <<pure, md, packs, kb, calls, fsops, explicitEnded, everReady, published>>

\* the end of the scoring loop: scores.sort(...), scores[: max(1, k)], and the
\* return of an empty result when nothing is left to look up
Ranked(f, scores) ==
  LET top == TakeK(SortScores(scores), f.k) IN
  IF top = <<>>
  THEN [f EXCEPT !.pc = "done", !.scores = top, !.result = Returned(<<>>)]
  ELSE [f EXCEPT !.pc = "S_out", !.scores = top, !.pos = 1]

\* a search that, given no hint, resolves the language of the query as load
\* resolves that of a document: detect_language, accepted from 0.6 on
SearchTokenizeDetecting(t) ==
  /\ th[t].pc = "S_tok"
  /\ LET guess == detect_language(th[t].query)
         hint == IF th[t].hint /= None THEN th[t].hint
                 ELSE IF guess.confidence >= 600 THEN guess.code ELSE en
         q_tokens == tokenize(th[t].query, hint)
         f == [th[t] EXCEPT !.q_tokens = q_tokens, !.it = chunks, !.pos = 1,
                            !.snaps = {published, Shared}
                                        \cup {th[u].target : u \in {v \in Threads : Publishing(th[v])}}]
     IN th' = [th EXCEPT ![t] =
                 IF q_tokens = <<>>
                 THEN [th[t] EXCEPT !.pc = "done", !.result = Returned(<<>>)]
                 ELSE IF chunks = <<>> THEN Ranked(f, <<>>)
                 ELSE [f EXCEPT !.pc = "S_score"]]
  /\ UNCHANGED <<pure, md, packs, kb, calls, fsops, hist>>

\* lines 243-248: tokenize the query, return [] for no token, else take the
\* iterator over the list self.chunks names now
SearchTokenize(t) ==
  /\ th[t].pc = "S_tok"
  /\ LET q_tokens == tokenize(th[t].query, th[t].hint)
         f == [th[t] EXCEPT !.q_tokens = q_tokens, !.it = chunks, !.pos = 1,
                            !.snaps = {published, Shared}
                                        \cup {th[u].target : u \in {v \in Threads : Publishing(th[v])}}]
     IN th' = [th EXCEPT ![t] =
                 IF q_tokens = <<>>
                 THEN [th[t] EXCEPT !.pc = "done", !.result = Returned(<<>>)]
                 ELSE IF chunks = <<>> THEN Ranked(f, <<>>)
                 ELSE [f EXCEPT !.pc = "S_score"]]
  /\ UNCHANGED <<pure, md, packs, kb, calls, fsops, hist>>

\* lines 248-251, one chunk of the iterator: its score from self.idf and
\* self.avgdl as they are now; after the last chunk, line 253
SearchScore(t) ==
  /\ th[t].pc = "S_score"
  /\ LET f == th[t]
         s == _bm25_score(f.q_tokens, f.it[f.pos], idf, avgdl)
         scores == IF Keep(s)
                   THEN Append(f.scores, [i |-> f.pos - 1, s |-> s,
                                          scored |-> f.it[f.pos].chunk_id])
                   ELSE f.scores
     IN th' = [th EXCEPT ![t] =
                 IF f.pos = Len(f.it) THEN Ranked(f, scores)
                 ELSE [f EXCEPT !.scores = scores, !.pos = f.pos + 1]]
  /\ UNCHANGED <<pure, md, packs, kb, calls, fsops, hist>>

\* lines 255-257, one pair of the slice: self.chunks[i] of the list that
\* self.chunks names now (IndexError when it has no position i)
SearchOut(t) ==
  /\ th[t].pc = "S_out"
  /\ LET f == th[t]
         e == f.scores[f.pos]
         out == Append(f.out, [chunk |-> chunks[e.i + 1], score |-> e.s])
     IN th' = [th EXCEPT ![t] =
                 IF e.i >= Len(chunks)
                 THEN [f EXCEPT !.pc = "done", !.result = Raised("IndexError")]
                 ELSE IF f.pos = Len(f.scores)
                      THEN [f EXCEPT !.pc = "done", !.out = out, !.result = Returned(out)]
                      ELSE [f EXCEPT !.out = out, !.pos = f.pos + 1]]
  /\ UNCHANGED <<pure, md, packs, kb, calls, fsops, hist>>

\* the caller takes the result
Return(t) ==
  /\ th[t].pc = "done"
  /\ th' = [th EXCEPT ![t] = IdleFrame]
  /\ UNCHANGED <<pure, md, packs, kb, calls, fsops, hist>>

(***************************************************************************)
(* Specifications                                                          *)
(***************************************************************************)
\* the callers of the web application: requests run on a pool of threads
Next ==
  \/ fsops < MaxFsOps /\ \E n \in MdNames, c \in ConcMdContents : WriteMd(n, c)
  \/ fsops < MaxFsOps /\ \E n \in PackNames, c \in ConcPackContents : WritePack(n, c)
  \/ calls < MaxCalls /\ \E t \in Threads : CallLoad(t)
  \/ \E t \in Threads : LoadBuild(t)
  \/ \E t \in Threads : LoadDf(t)
  \/ \E t \in Threads : LoadNDocs(t)
  \/ \E t \in Threads : LoadAvgdl(t)
  \/ \E t \in Threads : LoadIdf(t)
  \/ \E t \in Threads : LoadReady(t)
  \/ calls < MaxCalls
       /\ \E t \in Threads, q \in ConcQueries, k \in ConcKs, h \in ConcHints :
            CallSearch(t, q, k, h)
  \/ \E t \in Threads : SearchCheck(t)
  \/ \E t \in Threads : SearchTokenize(t)
  \/ \E t \in Threads : SearchScore(t)
  \/ \E t \in Threads : SearchOut(t)
  \/ \E t \in Threads : Return(t)

Spec == Init /\ [][Next]_vars

\* one caller, one call at a time; the sources change between the calls
Quiet == \A t \in Threads : th[t].pc = "idle"

SeqNext ==
  \/ Quiet /\ fsops < SeqMaxFsOps /\ \E n \in MdNames, c \in MdContents : WriteMd(n, c)
  \/ Quiet /\ fsops < SeqMaxFsOps /\ \E n \in PackNames, c \in PackContents : WritePack(n, c)
  \/ calls < SeqMaxCalls /\ CallLoad(1)
  \/ LoadBuild(1)
  \/ LoadDf(1)
  \/ LoadNDocs(1)
  \/ LoadAvgdl(1)
  \/ LoadIdf(1)
  \/ LoadReady(1)
  \/ calls < SeqMaxCalls /\ \E q \in Queries, k \in Ks, h \in Hints : CallSearch(1, q, k, h)
  \/ SearchCheck(1)
  \/ SearchTokenize(1)
  \/ SearchScore(1)
  \/ SearchOut(1)
  \/ Return(1)

SeqSpec == SeqInit /\ [][SeqNext]_vars

(***************************************************************************)
(* Calls of the module-level functions                                     *)
(***************************************************************************)
\* a str literal as the sequence of its characters
Chars(str) == [i \in 1..Len(str) |-> SubSeq(str, i, i)]

\* the texts given to chunk_text: blocks of 2 to 8 characters with blank
\* lines, blank lines holding spaces, and single newlines between them
ChunkTexts ==
  { <<>>,
    Chars("  \n "),
    Chars("abcdefgh"),
    Chars("ab\n\ncd\n\nef"),
    Chars("ab\n\nabcdefgh\n\ncd"),
    Chars("abcdefgh\n\nab\n\ncd\n\nefg"),
    Chars(" ab \n \t\n cd\nef \n\n\n\ngh "),
    Chars("a b\ncd\n\ne  f") }

\* the max_chars given to chunk_text
ChunkMaxes == {0, 2, 4, 5, 6, 7, 8, 12}

\* a caller calls chunk_text(text, max_chars)
ChunkText(text, max_chars) ==
  /\ fn' = [op |-> "chunk_text", text |-> text, max_chars |-> max_chars,
            out |-> chunk_text(text, max_chars)]
  /\ UNCHANGED <<md, packs, kb, th, calls, fsops, hist>>

\* the texts given to tokenize
TokTexts ==
  { <<>>,
    Chars("  "),
    Chars("Libraries and stories"),
    Chars("is as gas ties flies"),
    Chars("ands thes theies pours its"),
    Chars("Le chat's ÉTÉ, x y2"),
    Chars("量"),
    Chars("量力"),
    Chars("量力日文"),
    Chars("量,力 日文量力日"),
    Chars("cat やカ") }

\* the hints given to tokenize: none, supported ones, an unsupported one
TokHints == {None, en, fr, ja, <<"x", "x">>}

\* the call c is tokenize(text, lang_hint)
SameCall(c, text, lang_hint) ==
  c.op = "tokenize" /\ c.text = text /\ c.hint = lang_hint

\* a call of a tokenizer that, given no hint, takes the language of the first
\* chunk of the Index
TokenizeByIndex(text, lang_hint) ==
  /\ fn' = [op |-> "tokenize", text |-> text, hint |-> lang_hint,
            out |-> tokenize(text, IF lang_hint = None /\ chunks /= <<>>
                                   THEN chunks[1].lang ELSE lang_hint),
            again |-> SameCall(fn, text, lang_hint)]
  /\ UNCHANGED <<md, packs, kb, th, calls, fsops, hist>>

\* a caller calls tokenize(text, lang_hint); again records that the call of a
\* module-level function before it was tokenize with the same arguments
Tokenize(text, lang_hint) ==
  /\ fn' = [op |-> "tokenize", text |-> text, hint |-> lang_hint,
            out |-> tokenize(text, lang_hint),
            again |-> SameCall(fn, text, lang_hint)]
  /\ UNCHANGED <<md, packs, kb, th, calls, fsops, hist>>

\* the codes given to normalize_lang with the tags they stand for: the tags,
\* aliases, and both in other letter cases and inside whitespace
KnownCodes ==
  { <<Chars("en"), en>>, <<Chars("zh"), zh>>, <<Chars("ja"), ja>>, <<Chars("fr"), fr>>,
    <<Chars("pt"), pt>>, <<Chars("es"), es>>, <<Chars("id"), id>>,
    <<Chars("english"), en>>, <<Chars("eng"), en>>, <<Chars("bahasa"), id>>,
    <<Chars("pt-br"), pt>>, <<Chars("zh-cn"), zh>>, <<Chars("jpn"), ja>>,
    <<Chars(" English "), en>>, <<Chars("ENG"), en>>, <<Chars("Bahasa\n"), id>>,
    <<Chars("PT-BR"), pt>>, <<Chars("\tZh-Cn"), zh>>, <<Chars("JPN  "), ja>>,
    <<Chars(" FR"), fr>>, <<Chars("Es"), es>>, <<Chars("ID"), id>> }

\* the codes given to normalize_lang that stand for no tag; the last is "",
\* which the model does not tell from an absent code
OtherCodes ==
  { Chars("xx"), Chars("e n"), Chars("enx"), Chars("english!"), Chars("zh_cn"),
    Chars("de"), Chars("  "), <<>> }

LangCodes == {p[1] : p \in KnownCodes} \cup OtherCodes

\* a caller calls normalize_lang(code), and again on what it returned
NormalizeLang(code) ==
  /\ fn' = [op |-> "normalize_lang", code |-> code, out |-> normalize_lang(code),
            twice |-> normalize_lang(normalize_lang(code))]
  /\ UNCHANGED <<md, packs, kb, th, calls, fsops, hist>>

\* the largest number of chunks for which the idf is computed on its own
IdfMaxDocs == 8

\* line 190 for two terms of one Index of n_docs chunks, held by dfi and by
\* dfj of them
Idf(n_docs, dfi, dfj) ==
  /\ fn' = [op |-> "idf", n_docs |-> n_docs, dfi |-> dfi, dfj |-> dfj,
            idf_i |-> IdfOf(n_docs, dfi), idf_j |-> IdfOf(n_docs, dfj)]
  /\ UNCHANGED <<md, packs, kb, th, calls, fsops, hist>>

\* the sources of the Indexes that are scored against: chunks of 3 and 1
\* tokens; of 3, 3, 1 and 5; of 3, 1 and 1; and one chunk of 5
ScoreSources ==
  { <<[n \in MdNames |-> IF n = Chars("a") THEN DocBm25 ELSE Absent],
      [n \in PackNames |-> PackFile(<<RecCats>>)]>>,
    <<[n \in MdNames |-> DocBm25],
      [n \in PackNames |-> PackFile(<<RecCats, RecCjk>>)]>>,
    <<[n \in MdNames |-> IF n = Chars("a") THEN DocBm25 ELSE Absent],
      [n \in PackNames |-> PackFile(<<RecCats, RecCats>>)]>>,
    <<[n \in MdNames |-> Absent],
      [n \in PackNames |-> PackFile(<<RecCjk>>)]>> }

\* the Indexes that load leaves for them
ScoreIndexes ==
  {IndexOf(r.chunks, r.df) : r \in {LoadSources(src[1], src[2]) : src \in ScoreSources}}

\* the query tokens: one token, a token twice, two tokens, a token that no
\* chunk holds, and CJK tokens
ScoreQueries ==
  { <<Chars("cat")>>,
    <<Chars("cat"), Chars("cat")>>,
    <<Chars("cat"), Chars("bm25")>>,
    <<Chars("dog"), Chars("cat"), Chars("dog")>>,
    <<Chars("量力"), Chars("量"), Chars("cat"), Chars("量")>> }

\* line 249 for the chunk at pos of the Index x: s = self._bm25_score(q_tokens, c)
Score(x, q_tokens, pos) ==
  /\ fn' = [op |-> "score", q_tokens |-> q_tokens, doc |-> x.chunks[pos],
            idf |-> x.idf, avgdl |-> x.avgdl,
            out |-> _bm25_score(q_tokens, x.chunks[pos], x.idf, x.avgdl)]
  /\ UNCHANGED <<md, packs, kb, th, calls, fsops, hist>>

\* the module-level functions, called one after another with nothing else
\* going on
FnNext ==
  \/ \E x \in ScoreIndexes, q_tokens \in ScoreQueries :
       \E pos \in 1..Len(x.chunks) : Score(x, q_tokens, pos)
  \/ \E code \in LangCodes : NormalizeLang(code)
  \/ \E n_docs \in 1..IdfMaxDocs : \E dfi, dfj \in 1..n_docs : Idf(n_docs, dfi, dfj)
  \/ \E text \in TokTexts, lang_hint \in TokHints : Tokenize(text, lang_hint)
  \/ \E text \in ChunkTexts, max_chars \in ChunkMaxes : ChunkText(text, max_chars)

FnSpec == Init /\ [][FnNext]_vars

\* the largest number of chunks in the sweep of line 190
IdfSweepDocs == 14

\* the loop of lines 188-190 taken over every table it can meet: line 190 for
\* each n_docs from 1 up and, for each, each dfi from 1 to n_docs, in turn
IdfSweepNext ==
  \/ fn = NoCall /\ Idf(1, 1, 1)
  \/ fn /= NoCall /\ fn.dfi < fn.n_docs /\ Idf(fn.n_docs, fn.dfi + 1, fn.dfi + 1)
  \/ fn /= NoCall /\ fn.dfi = fn.n_docs /\ fn.n_docs < IdfSweepDocs /\ Idf(fn.n_docs + 1, 1, 1)

\* the loop runs on until it is through
IdfSweepSpec == Init /\ [][IdfSweepNext]_vars /\ WF_vars(IdfSweepNext)

\* calls of load and search made by the caller that also calls tokenize
TokMaxCalls == 2

\* what that caller tokenizes
PurityTexts == {Chars("Cats and 2 cat"), Chars("量力日")}

PurityHints == {None, fr}

\* a pack in Chinese and English, not loaded yet
TokInit ==
  /\ md = [n \in MdNames |-> Absent]
  /\ packs = [n \in PackNames |-> PackFile(<<RecCjk, RecCats>>)]
  /\ Fresh

\* one caller that calls tokenize between the steps of its loads and searches
TokNext ==
  \/ \E text \in PurityTexts, lang_hint \in PurityHints : Tokenize(text, lang_hint)
  \/ calls < TokMaxCalls /\ CallLoad(1)
  \/ LoadBuild(1)
  \/ LoadDf(1)
  \/ LoadNDocs(1)
  \/ LoadAvgdl(1)
  \/ LoadIdf(1)
  \/ LoadReady(1)
  \/ calls < TokMaxCalls
       /\ \E q \in ConcQueries, k \in ConcKs, h \in ConcHints : CallSearch(1, q, k, h)
  \/ SearchCheck(1)
  \/ SearchTokenize(1)
  \/ SearchScore(1)
  \/ SearchOut(1)
  \/ Return(1)

TokSpec == TokInit /\ [][TokNext]_vars

(***************************************************************************)
(* Loads of source sets of many kinds (LoadSpec)                           *)
(***************************************************************************)
\* calls of load made in one run
LoadMaxCalls == 2

\* markdown files present at once
LoadMaxFiles == 2

\* markdown files a:0.md and p.md, and the two whose names begin with a dot,
\* .md and .md.md
LoadMdNames == {Chars("a:0"), Chars("p"), <<>>, Chars(".md")}

\* pack files p.jsonl and p:1.jsonl
LoadPackNames == {Chars("p"), Chars("p:1")}

\* one word that three of the detector's languages share: detect_language
\* gives ("es", 0.6), the confidence capped by the tie rule
DocTie == MdFile(Chars("que cats"))

\* two French stopwords in five words: detect_language gives ("fr", 0.9)
DocFrench == MdFile(Chars("le chat et les chats"))

\* one French stopword in 28 words: detect_language gives ("fr", 0.45 + 4/28)
DocLow == MdFile(Chars("le x x x x x x x x x x x x x x x x x x x x x x x x x x x"))

\* CJK characters only: detect_language gives ("zh", 0.85)
DocCjk == MdFile(Chars("量力"))

LoadMdContents == {Absent, DocNoToken, DocBm25, DocTie, DocFrench, DocLow, DocCjk}

\* a record whose text has no token ("the a"), then one in English and one in
\* Chinese
PackSkips == PackFile(<<Line("object", Chars("the a"), en), RecCats, RecCjk>>)

LoadPackContents ==
  {AbsentPack, PackSkips, PackFile(<<RecCats>>), PackFile(<<Line("array", <<>>, <<>>), RecCats>>)}

LoadInit ==
  /\ md \in {f \in [LoadMdNames -> LoadMdContents] : Cardinality(Present(f)) <= LoadMaxFiles}
  /\ packs \in [LoadPackNames -> LoadPackContents]
  /\ Fresh

\* one caller that calls load, and load again
LoadNext ==
  \/ calls < LoadMaxCalls /\ CallLoad(1)
  \/ LoadBuild(1)
  \/ LoadDf(1)
  \/ LoadNDocs(1)
  \/ LoadAvgdl(1)
  \/ LoadIdf(1)
  \/ LoadReady(1)
  \/ Return(1)

LoadSpec == LoadInit /\ [][LoadNext]_vars

(***************************************************************************)
(* Searches in several languages (QrySpec)                                 *)
(***************************************************************************)
\* calls of search made in one run
QryMaxCalls == 2

QryMdContents == {Absent, DocBm25, DocFrench}

QryPackContents == {AbsentPack, PackFile(<<RecCats, RecCjk>>)}

\* queries for which detect_language gives ("fr", 0.9), ("es", 0.6),
\* ("en", 0.35), ("zh", 0.85), ("en", 0.9) and ("en", 0.2), and one word
QryQueries ==
  { Chars("le chat et les chats"),
    Chars("que cats"),
    Chars("cat bm25"),
    Chars("量力 cat"),
    Chars("the a"),
    Chars("25"),
    Chars("chats") }

\* no hint, tags, an alias of zh, and a code that is no language
QryHints == {None, en, fr, zh, ja, Chars("ZH-CN"), Chars("xx")}

QryKs == {0, 4}

QryInit ==
  /\ md \in [MdNames -> QryMdContents]
  /\ packs \in [PackNames -> QryPackContents]
  /\ Fresh

\* one caller that searches; the first search loads
QryNext ==
  \/ calls < QryMaxCalls
       /\ \E q \in QryQueries, k \in QryKs, h \in QryHints : CallSearch(1, q, k, h)
  \/ SearchCheck(1)
  \/ LoadBuild(1)
  \/ LoadDf(1)
  \/ LoadNDocs(1)
  \/ LoadAvgdl(1)
  \/ LoadIdf(1)
  \/ LoadReady(1)
  \/ SearchTokenize(1)
  \/ SearchScore(1)
  \/ SearchOut(1)
  \/ Return(1)

QrySpec == QryInit /\ [][QryNext]_vars

(***************************************************************************)
(* What the properties below speak of                                      *)
(***************************************************************************)
\* a call of op by t has ended and its result is not yet taken
Ended(t, op) == th[t].op = op /\ th[t].pc = "done"

\* a search by t has returned its list
Answered(t) == Ended(t, "search") /\ th[t].result.kind = "returned"

\* lines 247-251 against one Index x: the (i, s) pairs kept, in chunk order
RECURSIVE ScoreAll(_, _, _)
ScoreAll(x, q_tokens, pos) ==
  IF pos > Len(x.chunks) THEN <<>>
  ELSE LET s == _bm25_score(q_tokens, x.chunks[pos], x.idf, x.avgdl) IN
       (IF Keep(s)
        THEN <<[i |-> pos - 1, s |-> s, scored |-> x.chunks[pos].chunk_id]>>
        ELSE <<>>) \o ScoreAll(x, q_tokens, pos + 1)

\* lines 243-257 against one Index x
SearchOn(x, query, k, hint) ==
  LET top == TakeK(SortScores(ScoreAll(x, tokenize(query, hint), 1)), k)
  IN [j \in 1..Len(top) |-> [chunk |-> x.chunks[top[j].i + 1], score |-> top[j].s]]

\* the terms of the chunks cs
TermsOf(cs) == UNION {Range(cs[i].tokens) : i \in 1..Len(cs)}

\* how many of the chunks cs hold the term
Holding(cs, term) == Cardinality({i \in 1..Len(cs) : term \in Range(cs[i].tokens)})

\* x is an Index as one load leaves it
Complete(x) ==
  /\ DOMAIN x.df = TermsOf(x.chunks)
  /\ \A term \in DOMAIN x.df : x.df[term] = Holding(x.chunks, term)
  /\ x = IndexOf(x.chunks, x.df)

\* the chunk c holds a token of the query
Matches(c, q_tokens) == Range(q_tokens) \cap Range(c.tokens) /= {}

\* the position of the chunk c in self.chunks
PosOf(c) == CHOOSE p \in 1..Len(chunks) : chunks[p].chunk_id = c.chunk_id

\* the texts the sources hold now: of the markdown files that can be read
\* and of the records of the pack files that can be read
SourceTexts ==
  {safe_read_text(md[n]) : n \in Present(md)}
    \cup UNION {{packs[n].lines[i].text :
                   i \in {j \in 1..Len(packs[n].lines) : packs[n].lines[j].json = "object"}} :
                n \in Present(packs)}

\* the chunks the sources hold now, as texts
SourceChunkTexts == UNION {Range(chunk_text(x, MaxChars)) : x \in SourceTexts}

(***************************************************************************)
(* Concurrent callers (Spec)                                               *)
(***************************************************************************)
\* C1: while a load that found the KnowledgeBase Ready, with a completed
\* Index, is between assigning self.chunks and returning, and a search is
\* between taking its iterator and returning, the four shared fields chunks,
\* df, idf, avgdl all come from the previous load or all from the new one.
C1_ReaderSeesOneIndex ==
  \A t, u \in Threads :
    (Scoring(th[t]) /\ Publishing(th[u]) /\ th[u].reload /\ Complete(th[u].before))
      => Shared \in {th[u].before, th[u].target}

\* C2: a search that found the KnowledgeBase Ready ends with a list, never
\* with an IndexError, whatever loads it overlaps; the list is the one it
\* would return against a single Index in force or under construction during
\* the search; and each returned chunk is the chunk that was scored.
C2_SearchUnaffectedByReload ==
  \A t \in Threads :
    (Ended(t, "search") /\ ~th[t].implicit /\ th[t].q_tokens /= <<>>) =>
      /\ th[t].result.kind = "returned"
      /\ \E x \in th[t].snaps :
           th[t].result.hits = SearchOn(x, th[t].query, th[t].k, th[t].hint)
      /\ \A j \in 1..Len(th[t].result.hits) :
           th[t].result.hits[j].chunk.chunk_id = th[t].scores[j].scored

\* C28: however many searches are under way at once on a KnowledgeBase that
\* was never loaded, the searches start one load between them, and no search
\* takes its iterator over self.chunks before a load has completed.
C28_OneImplicitLoad ==
  /\ implicitLoads <= 1
  /\ \A t \in Threads : Scoring(th[t]) => everReady

(***************************************************************************)
(* A single caller (SeqSpec)                                               *)
(***************************************************************************)
\* C3: every call of load returns normally and leaves the KnowledgeBase
\* Ready, whatever the sources hold.
C3_LoadNeverRaises ==
  \A t \in Threads :
    Ended(t, "load") => (th[t].result.kind = "returned" /\ _is_ready)

\* C4: every call of search returns a list and never raises; the list is
\* empty when the query has no token.
C4_SearchNeverRaises ==
  \A t \in Threads :
    Ended(t, "search") =>
      /\ th[t].result.kind = "returned"
      /\ tokenize(th[t].query, th[t].hint) = <<>> => th[t].result.hits = <<>>

\* C5: in a run of one caller, the searches start at most one load in all,
\* none after a call of load has ended; a search scores only when the
\* KnowledgeBase is Ready; and Ready is never left.
C5_LazyLoadOnce ==
  /\ implicitLoads <= 1
  /\ ~lateImplicit
  /\ \A t \in Threads : Scoring(th[t]) => _is_ready
  /\ everReady => _is_ready

\* C6: when a call of load has ended, the Index holds what the sources hold
\* now and nothing else: every chunk is a chunk of a present source, every
\* term of df and idf is a term of those chunks, and df counts them.
C6_NoStaleAfterReload ==
  \A t \in Threads :
    Ended(t, "load") =>
      /\ \A i \in 1..Len(chunks) : chunks[i].text \in SourceChunkTexts
      /\ DOMAIN df = TermsOf(chunks)
      /\ DOMAIN idf = DOMAIN df
      /\ \A term \in DOMAIN df : df[term] = Holding(chunks, term)

\* C7: every score of a returned list is > 0, the list is in descending
\* order of score, and of two results of equal score the chunk earlier in
\* the Index comes first.
C7_PositiveSortedStable ==
  \A t \in Threads :
    Answered(t) =>
      LET hits == th[t].result.hits IN
      /\ \A j \in 1..Len(hits) : hits[j].score > 0
      /\ \A i, j \in 1..Len(hits) :
           i < j => /\ hits[i].score >= hits[j].score
                    /\ hits[i].score = hits[j].score
                         => PosOf(hits[i].chunk) < PosOf(hits[j].chunk)

\* a search returned two results of equal score and a third of lower score
C7_Witness ==
  \E t \in Threads :
    /\ Answered(t)
    /\ Len(th[t].result.hits) >= 3
    /\ \E i, j \in 1..Len(th[t].result.hits) :
         i < j /\ th[t].result.hits[i].score = th[t].result.hits[j].score
    /\ \E i, j \in 1..Len(th[t].result.hits) :
         i < j /\ th[t].result.hits[i].score > th[t].result.hits[j].score

\* C8: for every k the returned list is no longer than
\* max(1, min(k, number of chunks)) and holds no chunk twice.
C8_AtMostKDistinct ==
  \A t \in Threads :
    Answered(t) =>
      LET hits == th[t].result.hits IN
      /\ Len(hits) <= Max(1, Min(th[t].k, Len(chunks)))
      /\ \A i, j \in 1..Len(hits) :
           i /= j => hits[i].chunk.chunk_id /= hits[j].chunk.chunk_id

\* a search with k = 2 returned 2 results of 3 or more chunks that match
C8_Witness ==
  \E t \in Threads :
    /\ Answered(t)
    /\ th[t].k = 2
    /\ Len(th[t].result.hits) = 2
    /\ Cardinality({i \in 1..Len(chunks) : Matches(chunks[i], th[t].q_tokens)}) >= 3

\* C9: when a chunk of the Index holds a token of the query and k >= 1, the
\* returned list is not empty and its first chunk holds a token of the query
\* with a score > 0; when exactly one chunk holds one, the list is that chunk
\* alone.
C9_MatchIsFound ==
  \A t \in Threads :
    LET hits == th[t].result.hits
        q_tokens == tokenize(th[t].query, th[t].hint)
        matching == {i \in 1..Len(chunks) : Matches(chunks[i], q_tokens)}
    IN (Answered(t) /\ th[t].k >= 1 /\ matching /= {}) =>
         /\ hits /= <<>>
         /\ Matches(hits[1].chunk, q_tokens)
         /\ hits[1].score > 0
         /\ Cardinality(matching) = 1 =>
              (Len(hits) = 1 /\ PosOf(hits[1].chunk) \in matching)

\* the query "BM25" found the one chunk that holds "bm25"
C9_Witness ==
  \E t \in Threads :
    /\ Answered(t)
    /\ th[t].query = <<"B","M","2","5">>
    /\ th[t].k >= 1
    /\ Len(chunks) >= 2
    /\ Cardinality({i \in 1..Len(chunks) : <<"b","m","2","5">> \in Range(chunks[i].tokens)}) = 1
    /\ Len(th[t].result.hits) = 1
    /\ <<"b","m","2","5">> \in Range(th[t].result.hits[1].chunk.tokens)

\* C10: when no chunk of the Index holds a token of the query the returned
\* list is empty, and no returned chunk is without a token of the query.
C10_NoMatchNoResult ==
  \A t \in Threads :
    LET hits == th[t].result.hits
        q_tokens == tokenize(th[t].query, th[t].hint)
    IN Answered(t) =>
         /\ (\A i \in 1..Len(chunks) : ~Matches(chunks[i], q_tokens)) => hits = <<>>
         /\ \A j \in 1..Len(hits) : Matches(hits[j].chunk, q_tokens)

\* a query with a token got nothing from an Index of two or more chunks, none
\* of which holds the token
C10_Witness ==
  \E t \in Threads :
    /\ Answered(t)
    /\ Len(chunks) >= 2
    /\ th[t].q_tokens /= <<>>
    /\ th[t].k = 4
    /\ \A i \in 1..Len(chunks) : ~Matches(chunks[i], th[t].q_tokens)
    /\ th[t].result.hits = <<>>

\* the chunk comes from a markdown file
IsMd(c) == SubSeq(c.chunk_id, 1, 3) = <<"m", "d", ":">>

\* the chunks cs are in the order of their sources: markdown files before pack
\* files, files by name, the chunks of one file by line and position
InSourceOrder(cs) ==
  \A i, j \in 1..Len(cs) :
    i < j =>
      \/ IsMd(cs[i]) /\ ~IsMd(cs[j])
      \/ IsMd(cs[i]) = IsMd(cs[j]) /\ StrLess(cs[i].source_file, cs[j].source_file)
      \/ cs[i].source_file = cs[j].source_file /\ StrLess(cs[i].chunk_id, cs[j].chunk_id)

\* C11: a load that returns leaves the chunks in source order; when it is the
\* second load of sources that never changed, the four fields of the Index
\* are what the load before left; and a search returns the list that its
\* arguments and the Index determine, so the same list after either load.
C11_LoadIdempotent ==
  \A t \in Threads :
    /\ (Ended(t, "load") /\ th[t].result.kind = "returned") =>
         /\ InSourceOrder(chunks)
         /\ (th[t].reload /\ fsops = 0) => Shared = th[t].before
    /\ Answered(t) =>
         th[t].result.hits = SearchOn(Shared, th[t].query, th[t].k, th[t].hint)

\* a second load of unchanged sources, two markdown files and a pack file,
\* has returned
C11_Witness ==
  \E t \in Threads :
    /\ Ended(t, "load") /\ th[t].result.kind = "returned"
    /\ th[t].reload /\ fsops = 0
    /\ Cardinality({i \in 1..Len(chunks) : IsMd(chunks[i])}) = 2
    /\ Cardinality({i \in 1..Len(chunks) : ~IsMd(chunks[i])}) = 2

\* the positions of a call inside load
LoadPcs == {"L_build", "L_df", "L_ndocs", "L_avgdl", "L_idf", "L_ready"}

\* C12: a step of a search made on a Ready KnowledgeBase leaves chunks, df,
\* idf, avgdl and _is_ready as they are, and every step that changes one of
\* them is a step of a caller inside load.
C12_SearchReadsOnly ==
  [][ /\ \A t \in Threads :
           (th[t].op = "search" /\ th'[t] /= th[t] /\ _is_ready) => UNCHANGED kb
      /\ (kb' /= kb) => \E t \in Threads : th[t].pc \in LoadPcs /\ th'[t] /= th[t]
    ]_vars

\* a search that found the KnowledgeBase Ready has returned two results
C12_Witness ==
  \E t \in Threads :
    /\ Answered(t)
    /\ ~th[t].implicit
    /\ _is_ready
    /\ Len(th[t].result.hits) = 2

\* the pack files with every line of the kinds given replaced by a blank line
Blanked(files, kinds) ==
  [n \in DOMAIN files |->
     [files[n] EXCEPT !.lines =
        [i \in 1..Len(files[n].lines) |->
           IF files[n].lines[i].json \in kinds
           THEN Line("blank", <<>>, <<>>)
           ELSE files[n].lines[i]]]]

\* the lines that json.loads does not make a record of: not JSON at all, or a
\* JSON value that is no object
NoRecord == JsonKinds \ {"blank", "object"}

\* C13: a call of load returns, and leaves the chunks and the df counts that
\* the sources give with every line that is no record taken out: such a line
\* adds nothing and stops nothing.
C13_BadLineSkipped ==
  \A t \in Threads :
    Ended(t, "load") =>
      /\ th[t].result.kind = "returned"
      /\ chunks = LoadSources(md, Blanked(packs, NoRecord)).chunks
      /\ df = LoadSources(md, Blanked(packs, NoRecord)).df

\* C20: whenever no caller is inside load, so after every load, df[t] is the
\* number of chunks whose tokens hold t, however often one chunk holds it; the
\* keys of df are the terms of the chunks; and idf has the keys of df.
C20_DfCountsChunks ==
  (\A t \in Threads : th[t].pc \notin LoadPcs) =>
    /\ \A term \in DOMAIN df :
         df[term] = Cardinality({i \in 1..Len(chunks) :
                                   \E p \in 1..Len(chunks[i].tokens) :
                                     chunks[i].tokens[p] = term})
    /\ DOMAIN df = UNION {Range(chunks[i].tokens) : i \in 1..Len(chunks)}
    /\ DOMAIN idf = DOMAIN df

\* a load has returned with three or more chunks, one of them holding a term
\* twice, and a term that only one chunk holds
C20_Witness ==
  \E t \in Threads :
    /\ Ended(t, "load") /\ th[t].result.kind = "returned"
    /\ Len(chunks) >= 3
    /\ \E i \in 1..Len(chunks) : \E term \in DOMAIN chunks[i].tf : chunks[i].tf[term] = 2
    /\ \E term \in DOMAIN df : df[term] = 1
    /\ \E term \in DOMAIN df : df[term] = 3

(***************************************************************************)
(* The module-level functions (FnSpec)                                     *)
(***************************************************************************)
\* the source blocks of a text: what chunk_text's loop sees after its strip
BlocksOf(text) ==
  LET raw_blocks == SplitBlank(Strip(text), 1, <<>>)
  IN SelectSeq([i \in 1..Len(raw_blocks) |-> Strip(raw_blocks[i])], LAMBDA b : b /= <<>>)

\* a block as it reads when it is a chunk of its own
Alone(b) == normalize_ws(ReplaceNewlines(b))

\* C14: every chunk chunk_text returns is at most max_chars long, or is one
\* source block longer than max_chars on its own; and every source block
\* longer than max_chars is returned as a chunk of its own, whole.
C14_ChunkBound ==
  fn.op = "chunk_text" =>
    LET blocks == BlocksOf(fn.text)
        big == {i \in 1..Len(blocks) : Len(blocks[i]) > fn.max_chars}
    IN /\ \A j \in 1..Len(fn.out) :
            \/ Len(fn.out[j]) <= fn.max_chars
            \/ \E i \in big : fn.out[j] = Alone(blocks[i])
       /\ \A i \in big : \E j \in 1..Len(fn.out) : fn.out[j] = Alone(blocks[i])
       /\ Len(fn.out) >= Cardinality(big)

\* chunk_text merged two blocks into one chunk and returned a block longer
\* than max_chars as a chunk of its own
C14_Witness ==
  /\ fn.op = "chunk_text"
  /\ fn.max_chars = 6
  /\ Len(fn.out) = 3
  /\ \E j \in 1..Len(fn.out) : Len(fn.out[j]) = 8
  /\ \E j \in 1..Len(fn.out) : fn.out[j] = Chars("ab cd")

\* a call tokenize(text, lang_hint) takes the Latin path: the hint does not
\* resolve to zh or ja and the text holds no kana and no CJK character
LatinPath(text, lang_hint) ==
  /\ normalize_lang(lang_hint) \notin {zh, ja}
  /\ \A i \in 1..Len(text) : text[i] \notin KanaChars \cup CjkChars

\* the stopword set of the resolved language, the English one when the hint
\* is absent or unsupported
ResolvedStopwords(lang_hint) ==
  LET lang == normalize_lang(lang_hint)
  IN IF lang = fr THEN Stopwords_fr
     ELSE IF lang = es THEN Stopwords_es
     ELSE IF lang = pt THEN Stopwords_pt
     ELSE IF lang = id THEN Stopwords_id
     ELSE Stopwords_en

\* the lowercased word runs of the text that are longer than one character
\* and no stopword, in input order
KeptWords(text, lang_hint) ==
  SelectSeq(findall(WordChars, lower(Strip(text))),
            LAMBDA w : Len(w) > 1 /\ w \notin ResolvedStopwords(lang_hint))

\* C16: on the Latin path tokenize returns, in input order, the lowercased
\* word runs longer than one character that are no stopword of the resolved
\* language, each with a final "ies" turned into "y" when the word is longer
\* than 4, else with a final "s" dropped when the word is longer than 3;
\* "Libraries and stories" with the hint "en" gives library, story.
C16_LatinTokens ==
  (fn.op = "tokenize" /\ LatinPath(fn.text, fn.hint)) =>
    LET kept == KeptWords(fn.text, fn.hint) IN
    /\ Len(fn.out) = Len(kept)
    /\ \A i \in 1..Len(kept) :
         LET w == kept[i] n == Len(w) IN
         fn.out[i] =
           IF n > 4 /\ SubSeq(w, n - 2, n) = Chars("ies")
           THEN SubSeq(w, 1, n - 3) \o Chars("y")
           ELSE IF n > 3 /\ w[n] = "s" THEN SubSeq(w, 1, n - 1)
           ELSE w
    /\ (fn.text = Chars("Libraries and stories") /\ fn.hint = en)
         => fn.out = <<Chars("library"), Chars("story")>>

\* tokenize("Libraries and stories", "en") returned library, story
C16_Witness ==
  /\ fn.op = "tokenize"
  /\ fn.text = Chars("Libraries and stories")
  /\ fn.hint = en
  /\ fn.out = <<Chars("library"), Chars("story")>>

\* the word w is the token tok with a final "s", or with a final "ies" in
\* the place of a final "y"
PluralOf(w, tok) ==
  \/ w = tok \o Chars("s")
  \/ /\ tok /= <<>>
     /\ tok[Len(tok)] = "y"
     /\ w = SubSeq(tok, 1, Len(tok) - 1) \o Chars("ies")

\* C29 as stated: no token returned by the Latin path is a member of the
\* stopword set used for the call, and every returned token has length >= 2,
\* also for a word that is a stopword plus a trailing "s".
C29_NoStopwordReturned ==
  (fn.op = "tokenize" /\ LatinPath(fn.text, fn.hint)) =>
    \A p \in 1..Len(fn.out) :
      /\ fn.out[p] \notin ResolvedStopwords(fn.hint)
      /\ Len(fn.out[p]) >= 2

\* C29: on the Latin path every returned token has length >= 2, the words of
\* the text that are members of the stopword set used for the call yield no
\* token while every other word longer than one character yields one, and a
\* returned token is a member of that set only as the normalized form of a
\* longer word that is no member: "ands" is returned as "and".
C29_StopwordsTestedBeforeNormalization ==
  (fn.op = "tokenize" /\ LatinPath(fn.text, fn.hint)) =>
    LET sw == ResolvedStopwords(fn.hint)
        words == findall(WordChars, lower(Strip(fn.text)))
    IN /\ \A p \in 1..Len(fn.out) : Len(fn.out[p]) >= 2
       /\ Len(fn.out) =
            Cardinality({j \in 1..Len(words) : Len(words[j]) > 1 /\ words[j] \notin sw})
       /\ \A p \in 1..Len(fn.out) :
            fn.out[p] \in sw =>
              \E j \in 1..Len(words) :
                /\ words[j] \notin sw
                /\ Len(words[j]) > 3
                /\ PluralOf(words[j], fn.out[p])

\* tokenize("ands thes theies pours its", "en") dropped the stopword "its" and
\* returned the stopwords and, the, they with the token pour
C29_Witness ==
  /\ fn.op = "tokenize"
  /\ fn.text = Chars("ands thes theies pours its")
  /\ fn.hint = en
  /\ fn.out = <<Chars("and"), Chars("the"), Chars("they"), Chars("pour")>>

\* the kana and CJK characters of a text, each as a one-character str
Ideographs(text) ==
  LET at == {i \in 1..Len(text) : text[i] \in KanaChars \cup CjkChars}
      nth(k) == CHOOSE i \in at : Cardinality({j \in at : j < i}) = k - 1
  IN [k \in 1..Cardinality(at) |-> <<text[nth(k)]>>]

\* C17: on the ideographic path, with c the n kana and CJK characters of the
\* text, tokenize returns c itself when n < 2, and otherwise n - 1 + ceil(n/3)
\* tokens: the bigrams c[i]c[i+1] in order, then c[0], c[3], c[6], ...; a text
\* of 4 CJK characters gives 3 bigrams and 2 single characters.
C17_IdeographicTokens ==
  (fn.op = "tokenize" /\ Strip(fn.text) /= <<>> /\ ~LatinPath(fn.text, fn.hint)) =>
    LET c == Ideographs(fn.text)
        n == Len(c)
        thirds == IF n % 3 = 0 THEN n \div 3 ELSE n \div 3 + 1
    IN IF n < 2 THEN fn.out = c
       ELSE /\ Len(fn.out) = n - 1 + thirds
            /\ \A i \in 1..(n - 1) : fn.out[i] = c[i] \o c[i + 1]
            /\ \A j \in 0..(thirds - 1) : fn.out[n + j] = c[3 * j + 1]

\* tokenize of a text of 4 CJK characters returned 3 bigrams and 2 characters
C17_Witness ==
  /\ fn.op = "tokenize"
  /\ Len(fn.text) = 4
  /\ Len(Ideographs(fn.text)) = 4
  /\ Len(fn.out) = 5
  /\ Cardinality({i \in 1..5 : Len(fn.out[i]) = 2}) = 3
  /\ Cardinality({i \in 1..5 : Len(fn.out[i]) = 1}) = 2

\* ln(1 + 0.5/(N + 0.5)) for N = 1, 2, ..., in thousandths
LnAllChunks == <<287, 182, 133, 105, 87, 74, 64, 57, 51, 46, 42, 39>>

\* C18: for N >= 2 chunks the idf of a term that every chunk holds is
\* ln(1 + 0.5/(N + 0.5)) and is lower than the idf of a term that one chunk
\* holds; for a fixed N the idf of the term in fewer chunks is the higher.
C18_IdfDecreasing ==
  fn.op = "idf" =>
    /\ (fn.n_docs >= 2 /\ fn.dfi = fn.n_docs) => fn.idf_i = LnAllChunks[fn.n_docs]
    /\ (fn.n_docs >= 2 /\ fn.dfi = fn.n_docs /\ fn.dfj = 1) => fn.idf_i < fn.idf_j
    /\ fn.dfi < fn.dfj => fn.idf_i > fn.idf_j

\* of 4 chunks, the idf of a term in all of them and of a term in one
C18_Witness ==
  /\ fn.op = "idf"
  /\ fn.n_docs = 4 /\ fn.dfi = 4 /\ fn.dfj = 1
  /\ fn.idf_i = 105
  /\ fn.idf_j > 1000

\* C19: normalize_lang returns one of the seven tags or none; a tag or an
\* alias, in any letter case and inside whitespace, gives its tag; any other
\* code, the empty and the absent one too, gives none; and a returned tag
\* normalizes to itself.
C19_NormalizeLangClosed ==
  fn.op = "normalize_lang" =>
    /\ fn.out \in {en, zh, ja, fr, pt, es, id, None}
    /\ \A p \in KnownCodes : fn.code = p[1] => fn.out = p[2]
    /\ fn.code \in OtherCodes => fn.out = None
    /\ fn.twice = fn.out

\* normalize_lang gave "pt" for "PT-BR"
C19_Witness ==
  /\ fn.op = "normalize_lang"
  /\ fn.code = Chars("PT-BR")
  /\ fn.out = pt
  /\ fn.twice = pt

\* the buffer with the block b joined to it by a blank line
Joined(buf, b) == IF buf = <<>> THEN b ELSE buf \o <<"\n", "\n">> \o b

\* the greedy reference over the blocks from position i on: out is what was
\* emitted so far and buf the running buffer
RECURSIVE Greedy(_, _, _, _, _)
Greedy(blocks, i, out, buf, max_chars) ==
  IF i > Len(blocks)
  THEN (IF buf /= <<>> THEN Append(out, buf) ELSE out)
  ELSE IF Len(Joined(buf, blocks[i])) <= max_chars
       THEN Greedy(blocks, i + 1, out, Joined(buf, blocks[i]), max_chars)
       ELSE Greedy(blocks, i + 1, (IF buf /= <<>> THEN Append(out, buf) ELSE out),
                   blocks[i], max_chars)

\* the texts of a sequence one after another, a space between two of them
RECURSIVE JoinSp(_)
JoinSp(texts) ==
  IF texts = <<>> THEN <<>>
  ELSE IF Len(texts) = 1 THEN texts[1]
  ELSE texts[1] \o <<" ">> \o JoinSp(Tail(texts))

\* C25: chunk_text returns what the greedy reference emits over the trimmed
\* non-empty blocks (a block joins the buffer exactly when the joined length
\* is at most max_chars, else the buffer is emitted and the block starts the
\* next one; the last buffer is flushed), each emitted buffer with its
\* whitespace collapsed; the chunks read one after another are the blocks read
\* one after another, so every block is in one chunk, in order and whole; and
\* a chunk has no newline, no two whitespace characters in a row, and no
\* whitespace at either end.
C25_ChunkTextIsGreedy ==
  fn.op = "chunk_text" =>
    LET blocks == BlocksOf(fn.text)
        ref == Greedy(blocks, 1, <<>>, <<>>, fn.max_chars)
    IN /\ Len(fn.out) = Len(ref)
       /\ \A j \in 1..Len(ref) : fn.out[j] = Alone(ref[j])
       /\ JoinSp(fn.out) = JoinSp([i \in 1..Len(blocks) |-> Alone(blocks[i])])
       /\ \A j \in 1..Len(fn.out) :
            LET c == fn.out[j] IN
            /\ c /= <<>>
            /\ c[1] \notin WS /\ c[Len(c)] \notin WS
            /\ \A p \in 1..Len(c) : c[p] /= "\n"
            /\ \A p \in 1..(Len(c) - 1) : ~(c[p] \in WS /\ c[p + 1] \in WS)

\* chunk_text with max_chars 7 returned a block of 8 characters on its own,
\* then two blocks joined, then the last block
C25_Witness ==
  /\ fn.op = "chunk_text"
  /\ fn.text = Chars("abcdefgh\n\nab\n\ncd\n\nefg")
  /\ fn.max_chars = 7
  /\ fn.out = <<Chars("abcdefgh"), Chars("ab cd"), Chars("efg")>>

\* how often the token t is in the chunk doc
CountIn(t, doc) == Cardinality({p \in 1..Len(doc.tokens) : doc.tokens[p] = t})

\* one query token's share as the spec gives it, in thousandths, rounded down:
\* idf[t] * tf * (k1 + 1) / (tf + k1 * (1 - b + b * dl / avgdl)) with k1 = 1.4
\* and b = 0.75, numerator and denominator both times 20 * avgdl
ClaimedShare(t, doc, s_idf, s_avgdl) ==
  LET tf == CountIn(t, doc)
      dl == IF Len(doc.tokens) > 1 THEN Len(doc.tokens) ELSE 1
  IN IF t \notin DOMAIN s_idf \/ tf = 0 THEN 0
     ELSE (48 * s_idf[t] * tf * s_avgdl.num)
            \div (20 * tf * s_avgdl.num + 7 * s_avgdl.num + 21 * dl * s_avgdl.den)

\* the shares of the query tokens from position p on, added up
RECURSIVE ClaimedScore(_, _, _, _, _)
ClaimedScore(q_tokens, p, doc, s_idf, s_avgdl) ==
  IF p > Len(q_tokens) THEN 0
  ELSE ClaimedShare(q_tokens[p], doc, s_idf, s_avgdl)
         + ClaimedScore(q_tokens, p + 1, doc, s_idf, s_avgdl)

\* C24: the score of a chunk is the sum over the query tokens, one term for
\* each occurrence in the query, of idf[t] * tf * (k1 + 1) /
\* (tf + k1 * (1 - b + b * dl / avgdl)) with k1 = 1.4, b = 0.75, tf the count
\* of t in the chunk and dl = max(1, number of tokens of the chunk); a token
\* that the idf table or the chunk does not hold adds 0.
C24_ScoreIsBm25 ==
  fn.op = "score" =>
    /\ fn.out = ClaimedScore(fn.q_tokens, 1, fn.doc, fn.idf, fn.avgdl)
    /\ (\A p \in 1..Len(fn.q_tokens) :
          fn.q_tokens[p] \notin DOMAIN fn.idf \/ CountIn(fn.q_tokens[p], fn.doc) = 0)
         => fn.out = 0

\* the score of a chunk that holds "cat" twice among its 3 tokens, for the
\* query tokens cat, cat, in an Index of 3 chunks and avgdl 5/3: twice the
\* share of one "cat"
C24_Witness ==
  /\ fn.op = "score"
  /\ fn.q_tokens = <<Chars("cat"), Chars("cat")>>
  /\ CountIn(Chars("cat"), fn.doc) = 2 /\ Len(fn.doc.tokens) = 3
  /\ fn.avgdl = [num |-> 5, den |-> 3]
  /\ fn.out = 2 * ClaimedShare(Chars("cat"), fn.doc, fn.idf, fn.avgdl)
  /\ fn.out > 0

Loaded(t) == Ended(t, "load") /\ th[t].result.kind = "returned"

C22_ChunkIdUnique ==
  \A i, j \in 1..Len(chunks) : i /= j => chunks[i].chunk_id /= chunks[j].chunk_id

\* the markdown file that the chunk c was made from
FileOf(c) == md[CHOOSE n \in Present(md) : n \o ExtMd = c.source_file]

\* C26: after a load, every chunk of a markdown file has the language that
\* detect_language gives for the text of the file when the confidence is above
\* 0.6, and "en" in every other case, and its tokens are those of its text
\* under that language.
C26_LangAboveThreshold ==
  \A t \in Threads :
    Loaded(t) =>
      \A i \in 1..Len(chunks) :
        IsMd(chunks[i]) =>
          LET guess == detect_language(safe_read_text(FileOf(chunks[i])))
              lang == IF guess.confidence > 600 THEN guess.code ELSE en
          IN /\ chunks[i].lang = lang
             /\ chunks[i].tokens = tokenize(chunks[i].text, lang)

(***************************************************************************)
(* The tokens of a query (QrySpec)                                         *)
(***************************************************************************)
\* the search by t is past line 243: its query is tokenized
Tokenized(t) == th[t].op = "search" /\ th[t].pc \in {"S_score", "S_out", "done"}

\* the language that load would resolve for a text: the detected one from a
\* confidence of 0.6 on, else "en"
Resolved(text) ==
  LET guess == detect_language(text)
  IN IF guess.confidence >= 600 THEN guess.code ELSE en

\* C27, as claimed: a search without a hint tokenizes its query under the
\* language that detection resolves for the query.
C27_QueryAutoDetected ==
  \A t \in Threads :
    (Tokenized(t) /\ th[t].hint = None) =>
      th[t].q_tokens = tokenize(th[t].query, Resolved(th[t].query))

\* C27, amended: a search without a hint runs no detection: its query tokens
\* are those of tokenize with no hint, which for a query with no kana and no
\* CJK character are the tokens under "en", with the English stopword set,
\* whatever language detection resolves for the query; and for a
\* query with such a character the tokens of the ideographic path.
C27_QueryNotDetected ==
  \A t \in Threads :
    (Tokenized(t) /\ th[t].hint = None) =>
      IF LatinPath(th[t].query, None)
      THEN th[t].q_tokens = tokenize(th[t].query, en)
      ELSE th[t].q_tokens = tokenize(th[t].query, zh)

\* a search without a hint for "le chat et les chats", which detection
\* resolves to "fr", has returned with the French stopwords among its tokens
C27_Witness ==
  \E t \in Threads :
    /\ Answered(t)
    /\ th[t].hint = None
    /\ th[t].query = Chars("le chat et les chats")
    /\ Resolved(th[t].query) = fr
    /\ th[t].q_tokens = <<Chars("le"), Chars("chat"), Chars("et"), Chars("les"), Chars("chat")>>
    /\ tokenize(th[t].query, fr) = <<Chars("chat"), Chars("chat")>>

\* the text holds a kana or CJK character
HasIdeograph(text) == \E i \in 1..Len(text) : text[i] \in KanaChars \cup CjkChars

\* every character of every token is a kana or CJK character
AllIdeographic(tokens) ==
  \A p \in 1..Len(tokens) :
    \A i \in 1..Len(tokens[p]) : tokens[p][i] \in KanaChars \cup CjkChars

\* C30: the query of a search is tokenized on the ideographic path exactly
\* when its hint normalizes to zh or ja or the query holds a kana or CJK
\* character: then the tokens are made of the kana and CJK characters of the
\* query alone, and otherwise they are the kept words of the Latin path. So a
\* query with no kana and no CJK character under a zh or ja hint has no token,
\* and its search returns the empty list whatever the Index holds.
C30_IdeographicPathByHintOrText ==
  \A t \in Threads :
    Tokenized(t) =>
      LET q == th[t].query
          hinted == normalize_lang(th[t].hint) \in {zh, ja}
      IN /\ (hinted \/ HasIdeograph(q)) =>
              /\ AllIdeographic(th[t].q_tokens)
              /\ (th[t].q_tokens = <<>>) = (Ideographs(q) = <<>>)
         /\ ~(hinted \/ HasIdeograph(q)) =>
              Len(th[t].q_tokens) = Len(KeptWords(q, th[t].hint))
         /\ (hinted /\ ~HasIdeograph(q)) =>
              /\ th[t].q_tokens = <<>>
              /\ th[t].pc = "done"
              /\ th[t].result = Returned(<<>>)

\* a search for "cat bm25" with the hint "ZH-CN" has returned the empty list
\* from an Index with a chunk that holds the token cat, which the same query
\* without a hint would look for
C30_Witness ==
  \E t \in Threads :
    /\ Answered(t)
    /\ th[t].hint = Chars("ZH-CN")
    /\ th[t].query = Chars("cat bm25")
    /\ th[t].result.hits = <<>>
    /\ \E i \in 1..Len(chunks) :
         \E p \in 1..Len(chunks[i].tokens) : chunks[i].tokens[p] = Chars("cat")
    /\ tokenize(th[t].query, None) = <<Chars("cat"), Chars("bm25")>>

====
